---- MODULE Spec2Model ----
(***************************************************************************)
(* A model of the multi-signal threat scoring engine of mail_analyzer:     *)
(* ThreatAnalyzer.analyze_email and the sub-scorers it calls (rule checks, *)
(* MLAnalyzer, ContextAwareAnalyzer, ThreatClusterAnalyzer,                *)
(* ProactiveThreatDefense) and utils.get_threat_level.                     *)
(*                                                                         *)
(* Numbers.  Python floats are modelled as exact decimals: every sub-score *)
(* is an integer number of thousandths (2.0 is 2000), a fused score is the *)
(* fraction [n, d] of thousandths it is computed as, and round(x, 2) is an *)
(* integer number of hundredths.  Binary rounding error of the floats is   *)
(* not modelled.                                                           *)
(*                                                                         *)
(* Text.  Strings are TLA+ strings; str.lower(), the `in` substring test,  *)
(* str.endswith, str.split and the two URL regular expressions are         *)
(* computed character by character.                                       *)
(***************************************************************************)
EXTENDS Integers, Sequences, FiniteSets, TLC

(***************************************************************************)
(* config/settings.py                                                      *)
(***************************************************************************)
\* THREAT_LEVELS: the icons are the emoji green, yellow and red circle; the
\* model names them, one distinct string per level.
THREAT_LEVELS == [LOW |-> "ICON_GREEN", MEDIUM |-> "ICON_YELLOW", HIGH |-> "ICON_RED"]

SUSPICIOUS_EXTENSIONS ==
  [high_risk   |-> <<".exe", ".bat", ".cmd", ".scr", ".js", ".vbs", ".ps1", ".msi", ".reg">>,
   medium_risk |-> <<".zip", ".rar", ".7z", ".iso", ".jar", ".msc">>,
   low_risk    |-> <<".pdf", ".doc", ".docx", ".xls", ".xlsx">>]

SUSPICIOUS_KEYWORDS ==
  [high_risk   |-> <<"password", "passwort", "konto", "account", "bank", "verify",
                     "verifizieren", "urgent", "dringend", "immediate", "sofort",
                     "lawsuit", "klage", "inheritance", "erbe", "winner", "gewinner",
                     "bitcoin", "wallet">>,
   medium_risk |-> <<"update", "aktualisierung", "security", "sicherheit", "support",
                     "invoice", "rechnung", "payment", "zahlung", "überweisen",
                     "subscription", "abonnement", "trial", "testversion">>,
   low_risk    |-> <<"newsletter", "angebot", "offer", "sale", "rabatt",
                     "confirmation", "bestätigung", "reminder", "erinnerung">>]

SUSPICIOUS_TLD ==
  <<".xyz", ".top", ".work", ".date", ".loan", ".agency", ".guru",
    ".win", ".pro", ".stream", ".gdn", ".bid", ".click">>

\* SCORING_WEIGHTS, in thousandths.
SCORING_WEIGHTS ==
  [sender      |-> [suspicious_domain |-> 2000, spoofed_display_name |-> 2500,
                    public_provider |-> 1000],
   subject     |-> [high_risk_keyword |-> 2000, medium_risk_keyword |-> 1500,
                    low_risk_keyword |-> 500],
   body        |-> [high_risk_keyword |-> 1500, medium_risk_keyword |-> 1000,
                    low_risk_keyword |-> 300, suspicious_url |-> 2000,
                    multiple_urls |-> 1000, urgent_language |-> 1500],
   attachments |-> [high_risk_extension |-> 3000, medium_risk_extension |-> 2000,
                    low_risk_extension |-> 500, multiple_attachments |-> 1000]]

(***************************************************************************)
(* Python's str operations                                                 *)
(***************************************************************************)
UPPER == "ABCDEFGHIJKLMNOPQRSTUVWXYZÄÖÜ"
LOWER == "abcdefghijklmnopqrstuvwxyzäöü"
DIGITS == "0123456789"

CharAt(s, i) == SubSeq(s, i, i)

\* c in chars, for a one-character string c
InChars(c, chars) == \E i \in 1..Len(chars) : CharAt(chars, i) = c

LowerChar(c) ==
  IF InChars(c, UPPER)
  THEN CharAt(LOWER, CHOOSE i \in 1..Len(UPPER) : CharAt(UPPER, i) = c)
  ELSE c

RECURSIVE Lower(_)
\* str.lower()
Lower(s) == IF s = "" THEN "" ELSE LowerChar(CharAt(s, 1)) \o Lower(Tail(s))

\* sub in s
Contains(s, sub) ==
  \E i \in 1..(Len(s) - Len(sub) + 1) : SubSeq(s, i, i + Len(sub) - 1) = sub

\* s.endswith(suffix)
EndsWith(s, suffix) ==
  /\ Len(suffix) <= Len(s)
  /\ SubSeq(s, Len(s) - Len(suffix) + 1, Len(s)) = suffix

StartsWithAt(s, i, prefix) ==
  /\ i + Len(prefix) - 1 <= Len(s)
  /\ SubSeq(s, i, i + Len(prefix) - 1) = prefix

\* s.find(c) + 1 for a one-character c: the first position of c, 0 if none
IndexOf(s, c) ==
  IF Contains(s, c) THEN CHOOSE i \in 1..Len(s) :
                            /\ CharAt(s, i) = c
                            /\ \A j \in 1..(i - 1) : CharAt(s, j) # c
  ELSE 0

\* s.split(c)[0]
SplitFirst(s, c) == IF IndexOf(s, c) = 0 THEN s ELSE SubSeq(s, 1, IndexOf(s, c) - 1)

\* s.split(c)[1], for an s that contains c: the text between the first c and
\* the second one (or the end)
SplitSecond(s, c) ==
  LET rest == SubSeq(s, IndexOf(s, c) + 1, Len(s))
  IN  SplitFirst(rest, c)

RECURSIVE LStrip(_)
LStrip(s) == IF s # "" /\ CharAt(s, 1) = " " THEN LStrip(Tail(s)) ELSE s

RECURSIVE RStrip(_)
RStrip(s) ==
  IF s # "" /\ CharAt(s, Len(s)) = " " THEN RStrip(SubSeq(s, 1, Len(s) - 1)) ELSE s

\* s.strip(), for the blanks the model's texts hold
Strip(s) == RStrip(LStrip(s))

\* any(x in s for x in xs)
AnyIn(xs, s) == \E i \in 1..Len(xs) : Contains(s, xs[i])

\* the regular expression class \w: letters, digits and the underscore
IsWord(c) == InChars(c, UPPER) \/ InChars(c, LOWER) \/ InChars(c, DIGITS) \/ c = "_"

(***************************************************************************)
(* Python values: a field of a message record is absent from the dict,     *)
(* None, a str, or a value of another type.                                *)
(***************************************************************************)
Absent == [k |-> "absent"]
None == [k |-> "none"]
Str(s) == [k |-> "str", s |-> s]
\* a truthy value that is no str and no list, such as the int 42
Other == [k |-> "other"]
\* a list of values
List(xs) == [k |-> "list", xs |-> xs]

\* dict.get(key, default) on a field value
Get(v, default) == IF v.k = "absent" THEN default ELSE v

\* Python's truthiness of a field value
Truthy(v) ==
  CASE v.k = "str" -> v.s # ""
    [] v.k = "list" -> v.xs # <<>>
    [] v.k = "other" -> TRUE
    [] OTHER -> FALSE

(***************************************************************************)
(* Result of one rule check: the returned score, the indicators it         *)
(* appended to self.threat_indicators, the URLs it added to                *)
(* self.urls_found, and whether it raised instead of returning.            *)
(***************************************************************************)
Returned(score, inds, urls) ==
  [raised |-> FALSE, score |-> score, inds |-> inds, urls |-> urls]
Raised(inds, urls) == [raised |-> TRUE, score |-> 0, inds |-> inds, urls |-> urls]

\* [f(x) for x in xs]
Prefixed(prefix, xs) == [i \in 1..Len(xs) |-> prefix \o xs[i]]

\* the keywords of a tier found in a lower-cased text, in table order
Hits(keywords, text_lower) == SelectSeq(keywords, LAMBDA kw : Contains(text_lower, kw))

(***************************************************************************)
(* ThreatAnalyzer._check_sender                                            *)
(***************************************************************************)
\* the class [\w\.-] of the address pattern
IsAddrChar(c) == IsWord(c) \/ c = "." \/ c = "-"

\* the last index of the longest run of characters of class P that starts at
\* p (p - 1 when the run is empty)
RunEnd(s, p, P(_)) ==
  IF p > Len(s) THEN p - 1
  ELSE CHOOSE e \in (p - 1)..Len(s) :
         /\ \A i \in p..e : P(CharAt(s, i))
         /\ e = Len(s) \/ ~P(CharAt(s, e + 1))

\* the first index of the run of characters of class P that ends at e
RunStart(s, e, P(_)) ==
  CHOOSE b \in 1..(e + 1) :
    /\ \A i \in b..e : P(CharAt(s, i))
    /\ b = 1 \/ ~P(CharAt(s, b - 1))

\* [\w\.-]+\.\w+ matched greedily at p: the end of the match, 0 if none.  The
\* first part takes the longest run that still leaves a dot and a word
\* character; the last part then takes every word character that follows.
AddrDomainEnd(s, p) ==
  LET e == RunEnd(s, p, IsAddrChar)
      dots == {i \in (p + 1)..(e - 1) : CharAt(s, i) = "." /\ IsWord(CharAt(s, i + 1))}
  IN  IF dots = {} THEN 0
      ELSE LET d == CHOOSE i \in dots : \A j \in dots : j <= i
           IN  RunEnd(s, d + 1, IsWord)

\* re.search(r'<?([\w\.-]+@[\w\.-]+\.\w+)>?', sender).group(1): the leftmost
\* match, "" when there is none
AddrMatch(sender) ==
  LET ats == {a \in 2..Len(sender) :
                /\ CharAt(sender, a) = "@"
                /\ IsAddrChar(CharAt(sender, a - 1))
                /\ AddrDomainEnd(sender, a + 1) # 0}
  IN  IF ats = {} THEN ""
      ELSE LET a == CHOOSE x \in ats : \A y \in ats : x <= y
           IN  SubSeq(sender, RunStart(sender, a - 1, IsAddrChar),
                      AddrDomainEnd(sender, a + 1))

MissingSenderUnscored == Returned(0, <<"Fehlender Absender">>, {})

\* the branch `if not sender`
MissingSender ==
  Returned(SCORING_WEIGHTS.sender.suspicious_domain, <<"Fehlender Absender">>, {})

CheckSender(sender) ==
  IF ~Truthy(sender) THEN MissingSender
  ELSE IF sender.k # "str" THEN Raised(<<>>, {})       \* re.search: TypeError
  ELSE IF AddrMatch(sender.s) = ""
  THEN Returned(SCORING_WEIGHTS.sender.suspicious_domain,
                <<"Ungültiges E-Mail-Format">>, {})
  ELSE
    LET email == Lower(AddrMatch(sender.s))
        domain == SplitSecond(email, "@")
        tld == AnyIn(SUSPICIOUS_TLD, domain)
        display_name == IF Contains(sender.s, "<")
                        THEN Strip(SplitFirst(sender.s, "<")) ELSE ""
        spoofed == display_name # ""
                   /\ AnyIn(SUSPICIOUS_KEYWORDS.high_risk, Lower(display_name))
    IN  Returned(
          (IF tld THEN SCORING_WEIGHTS.sender.suspicious_domain ELSE 0)
            + (IF spoofed THEN SCORING_WEIGHTS.sender.spoofed_display_name ELSE 0),
          (IF tld THEN <<"Verdächtige Domain-Endung: " \o domain>> ELSE <<>>)
            \o (IF spoofed THEN <<"Möglicherweise gefälschter Anzeigename">> ELSE <<>>),
          {})

(***************************************************************************)
(* ThreatAnalyzer._check_subject                                           *)
(***************************************************************************)
CheckSubject(subject) ==
  IF ~Truthy(subject) THEN Returned(0, <<>>, {})
  ELSE IF subject.k # "str" THEN Raised(<<>>, {})      \* .lower(): AttributeError
  ELSE
    LET subject_lower == Lower(subject.s)
        high == Hits(SUSPICIOUS_KEYWORDS.high_risk, subject_lower)
        medium == Hits(SUSPICIOUS_KEYWORDS.medium_risk, subject_lower)
        low == Hits(SUSPICIOUS_KEYWORDS.low_risk, subject_lower)
    IN  Returned(
          Len(high) * SCORING_WEIGHTS.subject.high_risk_keyword
            + Len(medium) * SCORING_WEIGHTS.subject.medium_risk_keyword
            + Len(low) * SCORING_WEIGHTS.subject.low_risk_keyword,
          Prefixed("Hochrisiko-Schlüsselwort im Betreff: ", high)
            \o Prefixed("Mittleres Risiko-Schlüsselwort im Betreff: ", medium)
            \o Prefixed("Niedrigrisiko-Schlüsselwort im Betreff: ", low),
          {})

(***************************************************************************)
(* ThreatAnalyzer._extract_urls: re.findall of each of the                 *)
(* SUSPICIOUS_URL_PATTERNS in turn, duplicates removed.  re compiles a     *)
(* pattern before it searches with it, and raises re.error for a character *)
(* class with a range whose end is a class escape ("bad character range"). *)
(* A character class is listed item by item, as re's parser reads it.      *)
(***************************************************************************)
ASCII_LETTERS == "ABCDEFGHIJKLMNOPQRSTUVWXYZabcdefghijklmnopqrstuvwxyz"

\* The character classes of the two patterns, in the order they occur.
\* pattern 1: http[s]?://(?:[a-zA-Z]|[0-9]|[$-_@.&+]|[!*\\(\\),]|(?:%[0-9a-fA-F][0-9a-fA-F]))+
\* pattern 2: (?:https?://)?(?:[\w-]+\.)+[\w-]+(?:/[\w-./?%&=]*)?
SUSPICIOUS_URL_PATTERNS ==
  << [classes |-> << <<"s">>, <<"a", "-", "z", "A", "-", "Z">>, <<"0", "-", "9">>,
                     <<"$", "-", "_", "@", ".", "&", "+">>,
                     <<"!", "*", "\\\\", "(", "\\\\", ")", ",">>,
                     <<"0", "-", "9", "a", "-", "f", "A", "-", "F">>,
                     <<"0", "-", "9", "a", "-", "f", "A", "-", "F">> >>],
     [classes |-> << <<"\\w", "-">>, <<"\\w", "-">>,
                     <<"\\w", "-", ".", "/", "?", "%", "&", "=">> >>] >>

\* a class escape such as \w, as against an escaped literal such as \\
IsClassEscape(item) == item \in {"\\w", "\\d", "\\s", "\\W", "\\D", "\\S"}

RECURSIVE ClassCompilesFrom(_, _)
\* re's parser on one character class, from item i on: an item followed by
\* "-" and a further item is a range, which needs a literal at both ends; a
\* "-" that ends the class is a literal
ClassCompilesFrom(items, i) ==
  IF i > Len(items) THEN TRUE
  ELSE IF i + 2 <= Len(items) /\ items[i + 1] = "-"
  THEN /\ ~IsClassEscape(items[i])
       /\ ~IsClassEscape(items[i + 2])
       /\ ClassCompilesFrom(items, i + 3)
  ELSE ClassCompilesFrom(items, i + 1)

ClassCompiles(items) == ClassCompilesFrom(items, 1)


\* re.compile(pattern) succeeds
PatternCompiles(pattern) ==
  \A c \in 1..Len(pattern.classes) : ClassCompiles(pattern.classes[c])

\* (?:[a-zA-Z]|[0-9]|[$-_@.&+]|[!*\\(\\),]|(?:%[0-9a-fA-F][0-9a-fA-F])): the
\* range $-_ spans the ASCII codes 36 to 95, the percent sign among them
IsUrlChar(c) ==
  \/ InChars(c, ASCII_LETTERS)
  \/ InChars(c, DIGITS)
  \/ InChars(c, "$%&'()*+,-./:;<=>?@[\\]^_!")

\* the length of http[s]?:// at p, 0 if the text does not continue so
SchemeLen(s, p) ==
  IF StartsWithAt(s, p, "https://") THEN 8
  ELSE IF StartsWithAt(s, p, "http://") THEN 7 ELSE 0

\* pattern 1 matched at p: the end of the match, 0 if none
Match1End(s, p) ==
  LET n == SchemeLen(s, p)
  IN  IF n = 0 \/ RunEnd(s, p + n, IsUrlChar) < p + n THEN 0
      ELSE RunEnd(s, p + n, IsUrlChar)

RECURSIVE FindAll(_, _, _)
\* re.findall(pattern, text) from position p on: the non-overlapping matches,
\* left to right
FindAll(MatchEnd(_, _), s, p) ==
  IF p > Len(s) THEN {}
  ELSE IF MatchEnd(s, p) = 0 THEN FindAll(MatchEnd, s, p + 1)
  ELSE {SubSeq(s, p, MatchEnd(s, p))} \cup FindAll(MatchEnd, s, MatchEnd(s, p) + 1)

\* _extract_urls(text): [raised, urls].  The loop stops at the first pattern
\* that does not compile; pattern 2 is searched only if it compiles, and then
\* adds the matches of its own, which the model does not need to compute as
\* long as it does not.
ExtractUrls(text) ==
  IF \E i \in 1..Len(SUSPICIOUS_URL_PATTERNS) : ~PatternCompiles(SUSPICIOUS_URL_PATTERNS[i])
  THEN [raised |-> TRUE, urls |-> {}]
  ELSE [raised |-> FALSE, urls |-> FindAll(Match1End, text, 1)]

(***************************************************************************)
(* ThreatAnalyzer._analyze_urls.  list(set(urls)) has no defined order:    *)
(* order is the order in which the call sees the URLs.                     *)
(***************************************************************************)
\* the orders in which a set can be listed
Orders(S) ==
  {o \in [1..Cardinality(S) -> S] : \A i, j \in DOMAIN o : i # j => o[i] # o[j]}

\* urlparse(url if '://' in url else 'http://' + url).netloc.lower()
Netloc(url) ==
  LET full == IF Contains(url, "://") THEN url ELSE "http://" \o url
      start == (CHOOSE i \in 1..Len(full) :
                  /\ StartsWithAt(full, i, "://")
                  /\ \A j \in 1..(i - 1) : ~StartsWithAt(full, j, "://")) + 3
      IsNetlocChar(c) == ~InChars(c, "/?#")
  IN  Lower(SubSeq(full, start, RunEnd(full, start, IsNetlocChar)))

\* urlparse raises ValueError("Invalid IPv6 URL") on a netloc with one
\* bracket only; _analyze_urls logs it and goes on
UrlParses(url) == Contains(Netloc(url), "[") <=> Contains(Netloc(url), "]")

AnalyzeUrls(order) ==
  LET many == Len(order) > 3
      bad == SelectSeq(order, LAMBDA u : UrlParses(u) /\ AnyIn(SUSPICIOUS_TLD, Netloc(u)))
  IN  Returned(
        (IF many THEN SCORING_WEIGHTS.body.multiple_urls ELSE 0)
          + Len(bad) * SCORING_WEIGHTS.body.suspicious_url,
        (IF many THEN <<"Viele URLs gefunden (" \o ToString(Len(order)) \o ")">> ELSE <<>>)
          \o [i \in 1..Len(bad) |-> "Verdächtige URL-Domain: " \o Netloc(bad[i])],
        {order[i] : i \in 1..Len(order)})

(***************************************************************************)
(* ThreatAnalyzer._check_body                                              *)
(***************************************************************************)
\* risk_level.replace('_', ' ').title()
TIER_TITLE == [high_risk |-> "High Risk", medium_risk |-> "Medium Risk", low_risk |-> "Low Risk"]

urgency_indicators == <<"sofort", "dringend", "eilig", "wichtig", "warnung", "jetzt">>

\* the URL orders _check_body may see for a body
UrlOrders(body) ==
  IF body.k = "str" /\ body.s # "" THEN Orders(ExtractUrls(body.s).urls) ELSE {<<>>}

CheckBody(body, order) ==
  IF ~Truthy(body) THEN Returned(0, <<>>, {})
  ELSE IF body.k # "str" THEN Raised(<<>>, {})         \* .lower(): AttributeError
  ELSE
    LET body_lower == Lower(body.s)
        high == Hits(SUSPICIOUS_KEYWORDS.high_risk, body_lower)
        medium == Hits(SUSPICIOUS_KEYWORDS.medium_risk, body_lower)
        low == Hits(SUSPICIOUS_KEYWORDS.low_risk, body_lower)
        keyword_inds ==
          Prefixed(TIER_TITLE.high_risk \o "-Schlüsselwort im Text: ", high)
            \o Prefixed(TIER_TITLE.medium_risk \o "-Schlüsselwort im Text: ", medium)
            \o Prefixed(TIER_TITLE.low_risk \o "-Schlüsselwort im Text: ", low)
        urls == IF order = <<>> THEN Returned(0, <<>>, {}) ELSE AnalyzeUrls(order)
        urgent == AnyIn(urgency_indicators, body_lower)
    IN  IF ExtractUrls(body.s).raised
        THEN Raised(keyword_inds, {})                  \* re.error from _extract_urls
        ELSE
        Returned(
          Len(high) * SCORING_WEIGHTS.body.high_risk_keyword
            + Len(medium) * SCORING_WEIGHTS.body.medium_risk_keyword
            + Len(low) * SCORING_WEIGHTS.body.low_risk_keyword
            + urls.score
            + (IF urgent THEN SCORING_WEIGHTS.body.urgent_language ELSE 0),
          keyword_inds
            \o urls.inds
            \o (IF urgent THEN <<"Dringlichkeitssprache im Text">> ELSE <<>>),
          urls.urls)

(***************************************************************************)
(* ThreatAnalyzer._check_attachments                                       *)
(***************************************************************************)
\* a tier loop that looks for the extension anywhere in the name
TierMatchesAnywhere(name_lower, tier) ==
  \E i \in 1..Len(SUSPICIOUS_EXTENSIONS[tier]) :
    Contains(name_lower, SUSPICIOUS_EXTENSIONS[tier][i])

\* the first extension of a tier the lower-cased name ends with: the tier's
\* loop appends one indicator and breaks
TierMatches(name_lower, tier) ==
  \E i \in 1..Len(SUSPICIOUS_EXTENSIONS[tier]) :
    EndsWith(name_lower, SUSPICIOUS_EXTENSIONS[tier][i])

\* one pass of the loop body for a str attachment
AttachmentResult(attachment) ==
  LET attachment_lower == Lower(attachment)
      high == TierMatches(attachment_lower, "high_risk")
      medium == TierMatches(attachment_lower, "medium_risk")
      low == TierMatches(attachment_lower, "low_risk")
  IN  Returned(
        (IF high THEN SCORING_WEIGHTS.attachments.high_risk_extension ELSE 0)
          + (IF medium THEN SCORING_WEIGHTS.attachments.medium_risk_extension ELSE 0)
          + (IF low THEN SCORING_WEIGHTS.attachments.low_risk_extension ELSE 0),
        (IF high THEN <<"Hochrisiko-Anhang: " \o attachment>> ELSE <<>>)
          \o (IF medium THEN <<"Mittleres Risiko-Anhang: " \o attachment>> ELSE <<>>)
          \o (IF low THEN <<"Niedrigrisiko-Anhang: " \o attachment>> ELSE <<>>),
        {})

RECURSIVE AttachmentLoop(_, _)
\* for attachment in attachments, on top of the result acc so far; an element
\* that is no str raises at .lower()
AttachmentLoop(xs, acc) ==
  IF xs = <<>> THEN acc
  ELSE IF Head(xs).k # "str" THEN Raised(acc.inds, {})
  ELSE AttachmentLoop(Tail(xs),
         Returned(acc.score + AttachmentResult(Head(xs).s).score,
                  acc.inds \o AttachmentResult(Head(xs).s).inds, {}))

CheckAttachments(attachments) ==
  IF ~Truthy(attachments) THEN Returned(0, <<>>, {})
  ELSE IF attachments.k # "list" THEN Raised(<<>>, {})  \* len(): TypeError
  ELSE AttachmentLoop(attachments.xs,
         IF Len(attachments.xs) > 1
         THEN Returned(SCORING_WEIGHTS.attachments.multiple_attachments,
                       <<"Mehrere Anhänge (" \o ToString(Len(attachments.xs)) \o ")">>, {})
         ELSE Returned(0, <<>>, {}))

(***************************************************************************)
(* Message records: a dict with the keys subject, sender, body,            *)
(* attachments, each possibly absent or None.                              *)
(***************************************************************************)
Message(subject, sender, body, attachments) ==
  [subject |-> subject, sender |-> sender, body |-> body, attachments |-> attachments]

\* a list of str
Strs(xs) == List([i \in 1..Len(xs) |-> Str(xs[i])])

RECURSIVE JoinReprs(_)
\* repr() of a field value, as str() of a list of them needs it
Repr(v) ==
  CASE v.k = "str" -> "'" \o v.s \o "'"
    [] v.k = "none" -> "None"
    [] v.k = "list" -> "[" \o JoinReprs(v.xs) \o "]"
    [] OTHER -> "42"
JoinReprs(xs) ==
  IF xs = <<>> THEN ""
  ELSE IF Len(xs) = 1 THEN Repr(xs[1])
  ELSE Repr(xs[1]) \o ", " \o JoinReprs(Tail(xs))

(***************************************************************************)
(* ThreatAnalyzer._determine_threat_type: [raised, type]                   *)
(***************************************************************************)
phishing_lexicon == <<"bank", "konto", "password", "anmelden">>
scam_lexicon == <<"gewinn", "prize", "lottery">>

DetermineThreatType(email_data) ==
  LET attachments == Get(email_data.attachments, List(<<>>))
      body == Get(email_data.body, Str(""))
      subject == Get(email_data.subject, Str(""))
  IN  IF AnyIn(SUSPICIOUS_EXTENSIONS.high_risk, Repr(attachments))
      THEN [raised |-> FALSE, type |-> "malware"]
      ELSE IF body.k # "str" THEN [raised |-> TRUE, type |-> ""]     \* None.lower()
      ELSE IF AnyIn(phishing_lexicon, Lower(body.s))
      THEN [raised |-> FALSE, type |-> "phishing"]
      ELSE IF subject.k # "str" THEN [raised |-> TRUE, type |-> ""]
      ELSE IF AnyIn(scam_lexicon, Lower(subject.s))
      THEN [raised |-> FALSE, type |-> "scam"]
      ELSE [raised |-> FALSE, type |-> "suspicious"]

(***************************************************************************)
(* Scores.  A float is the fraction n/d of thousandths.                    *)
(***************************************************************************)
Frac(n, d) == [n |-> n, d |-> d]
\* x >= c and x < c for a fraction x and a number c of thousandths
FracGeq(x, c) == x.n >= c * x.d
FracLess(x, c) == x.n < c * x.d
FracLeq(x, y) == x.n * y.d <= y.n * x.d

\* round(a / b) for b > 0, halves to the even neighbour as Python rounds
RoundHalfEven(a, b) ==
  LET q == a \div b
      r == a % b
  IN  IF 2 * r < b THEN q
      ELSE IF 2 * r > b THEN q + 1
      ELSE IF q % 2 = 0 THEN q ELSE q + 1

\* round(x, 2), in hundredths
Round2(x) == RoundHalfEven(x.n, 10 * x.d)

(***************************************************************************)
(* utils.get_threat_level                                                  *)
(***************************************************************************)
FracGt(x, c) == x.n > c * x.d

GetThreatLevelStrict(score, use_icon) ==
  LET level == IF FracGt(score, 7000) THEN "HIGH"
               ELSE IF FracGt(score, 4000) THEN "MEDIUM"
               ELSE "LOW"
  IN  IF use_icon THEN THREAT_LEVELS[level] ELSE level

GetThreatLevel(score, use_icon) ==
  LET level == IF FracGeq(score, 7000) THEN "HIGH"
               ELSE IF FracGeq(score, 4000) THEN "MEDIUM"
               ELSE "LOW"
  IN  IF use_icon THEN THREAT_LEVELS[level] ELSE level

(***************************************************************************)
(* The weighted combination of analyze_email (lines 78 to 95).             *)
(* Weights are in tenths.                                                  *)
(***************************************************************************)
FusionWeightsContextAlways(ml_confidence, has_context) ==
  [rule_based |-> 4,
   ml |-> IF ml_confidence > 700 THEN 2 ELSE 1,
   context |-> 2,
   cluster |-> 1,
   proactive |-> 1]

FusionWeights(ml_confidence, has_context) ==
  [rule_based |-> 4,
   ml |-> IF ml_confidence > 700 THEN 2 ELSE 1,
   context |-> IF has_context THEN 2 ELSE 0,
   cluster |-> 1,
   proactive |-> 1]

\* sum(weights.values())
WeightSum(w) == w.rule_based + w.ml + w.context + w.cluster + w.proactive

\* (sender_score + subject_score + body_score + attachment_score) / 4: every
\* rule weight is a multiple of 0.1, so the quarter is a whole number of
\* thousandths
RuleAverage(sender_score, subject_score, body_score, attachment_score) ==
  (sender_score + subject_score + body_score + attachment_score) \div 4

\* self.threat_score after line 92
WeightedScore(rule_avg, ml_score, context_score, cluster_score, w) ==
  Frac(rule_avg * w.rule_based + ml_score * w.ml
         + context_score * w.context + cluster_score * w.cluster,
       WeightSum(w))

\* min(10.0, self.threat_score * 10)
Normalise(x) == IF FracGeq(Frac(10 * x.n, x.d), 10000) THEN Frac(10000, 1)
                ELSE Frac(10 * x.n, x.d)

(***************************************************************************)
(* MLAnalyzer.  The training data is kept as what the regressor's answers  *)
(* depend on in this model: the number n of samples, the least and the     *)
(* greatest target (lo, hi; both 0 while n = 0) and whether any sample's   *)
(* feature text has a token for the vectorizer (vocab).  A fitted          *)
(* RandomForestRegressor answers with a mean of training targets, a value  *)
(* between the least and the greatest target it was fitted on; which one   *)
(* depends on the forest, and is a choice among PREDICTIONS in that range. *)
(***************************************************************************)
RETRAIN_EVERY == 10

NoTrainingData == [n |-> 0, lo |-> 0, hi |-> 0, vocab |-> FALSE]
UnfittedModel == [fitted |-> FALSE, lo |-> 0, hi |-> 0, samples |-> 0]

\* os.path.splitext(name)[1] for a name without directory: from the last dot
\* on, unless only dots precede it
Splitext(name) ==
  LET dots == {i \in 1..Len(name) :
                 /\ CharAt(name, i) = "."
                 /\ \E j \in 1..(i - 1) : CharAt(name, j) # "."}
  IN  IF dots = {} THEN ""
      ELSE SubSeq(name, CHOOSE i \in dots : \A j \in dots : j <= i, Len(name))

RECURSIVE JoinStr(_, _)
\* sep.join(xs)
JoinStr(sep, xs) ==
  IF xs = <<>> THEN ""
  ELSE IF Len(xs) = 1 THEN xs[1]
  ELSE xs[1] \o sep \o JoinStr(sep, Tail(xs))

\* MLAnalyzer._extract_features: [raised, text].  Iterating a non-list and
\* joining a non-str raise TypeError.
MLExtractFeatures(email_data) ==
  LET subject == Get(email_data.subject, Str(""))
      body == Get(email_data.body, Str(""))
      sender == Get(email_data.sender, Str(""))
      attachments == Get(email_data.attachments, List(<<>>))
  IN  IF \/ attachments.k # "list"
         \/ \E i \in 1..Len(attachments.xs) : attachments.xs[i].k # "str"
         \/ subject.k # "str" \/ body.k # "str" \/ sender.k # "str"
      THEN [raised |-> TRUE, text |-> ""]
      ELSE [raised |-> FALSE,
            text |-> JoinStr(" ", <<subject.s, body.s, sender.s>>
                       \o [i \in 1..Len(attachments.xs) |-> Splitext(attachments.xs[i].s)])]

\* TfidfVectorizer's token pattern \b\w\w+\b finds a token in the text
HasToken(text) ==
  \E i \in 1..(Len(text) - 1) : IsWord(CharAt(text, i)) /\ IsWord(CharAt(text, i + 1))

\* an analyze_email that answers although feature extraction raised
MLAnalyzeEmailUnguarded(model, features, prediction) ==
  IF ~model.fitted THEN [ml_score |-> 0, confidence |-> 0]
  ELSE [ml_score |-> prediction, confidence |-> 1000]

\* MLAnalyzer.analyze_email with a model in state `model`: features is what
\* _extract_features gives for the message, prediction the value
\* model.predict returns when it is asked.  The unfitted model of a cold
\* start raises, as a failing feature extraction does; both are logged.
MLAnalyzeEmail(model, features, prediction) ==
  IF ~model.fitted THEN [ml_score |-> 0, confidence |-> 0]
  ELSE IF features.raised THEN [ml_score |-> 0, confidence |-> 0]
  ELSE [ml_score |-> prediction, confidence |-> 1000]

\* self.training_data after the append of train(); has_token tells whether
\* the sample's feature text has a token
AppendSample(data, has_token, threat_score) ==
  [n |-> data.n + 1,
   lo |-> IF data.n = 0 \/ threat_score < data.lo THEN threat_score ELSE data.lo,
   hi |-> IF data.n = 0 \/ threat_score > data.hi THEN threat_score ELSE data.hi,
   vocab |-> data.vocab \/ has_token]

\* len(self.training_data) % 10 == 0
RetrainDue(data) == data.n % RETRAIN_EVERY = 0

TEST_SIZE_PERCENT == 20

\* train_test_split(X, y, test_size=0.2): the number of samples left for
\* fitting after ceil(0.2 * n) of them were set aside for the evaluation
TrainSplit(n) == n - ((n * TEST_SIZE_PERCENT + 99) \div 100)

\* MLAnalyzer._retrain_model: the model after it.  fit_transform raises
\* ValueError (empty vocabulary) when no sample has a token; train() logs it
\* and the model stays as it was.
RetrainModel(model, data) ==
  IF data.n < RETRAIN_EVERY THEN model
  ELSE IF ~data.vocab THEN model
  ELSE [fitted |-> TRUE, lo |-> data.lo, hi |-> data.hi, samples |-> TrainSplit(data.n)]

(***************************************************************************)
(* ContextAwareAnalyzer                                                    *)
(***************************************************************************)
SENDER_MATCH_WEIGHT == 300
SUBJECT_MATCH_WEIGHT == 300
MAX_CLEARANCE_BONUS == 400

NoContext == [k |-> "none"]
UserContext(department, role, clearance_level, common_contacts) ==
  [k |-> "dict", department |-> department, role |-> role,
   clearance_level |-> clearance_level, common_contacts |-> common_contacts]

Min(a, b) == IF a <= b THEN a ELSE b
Max(a, b) == IF a >= b THEN a ELSE b

\* _analyze_role_specific.  The role models are IsolationForests that no
\* code path fits: score_samples raises NotFittedError, which is logged.
AnalyzeRoleSpecific(role_models, email_data, user_context) == 0

\* _get_department_patterns
DepartmentPatterns(patterns, department) ==
  SelectSeq(patterns, LAMBDA p : p.department = department)

\* _analyze_department_specific: [raised, score]
AnalyzeDepartmentSpecific(patterns, email_data, user_context) ==
  LET dept_patterns == DepartmentPatterns(patterns, user_context.department)
      sender == Get(email_data.sender, None)
      subject == Get(email_data.subject, Str(""))
      sender_match == \E i \in 1..Len(dept_patterns) :
                        sender.k = "str" /\ dept_patterns[i].sender = sender.s
      subject_match == \E i \in 1..Len(dept_patterns) :
                         \E j \in 1..Len(dept_patterns[i].typical_subjects) :
                           Contains(Lower(subject.s),
                                    Lower(dept_patterns[i].typical_subjects[j]))
  IN  IF user_context.department = "" THEN [raised |-> FALSE, score |-> 0]
      ELSE IF dept_patterns = <<>> THEN [raised |-> FALSE, score |-> 0]
      ELSE IF subject.k # "str" THEN [raised |-> TRUE, score |-> 0]
      ELSE [raised |-> FALSE,
            score |-> (IF sender_match THEN SENDER_MATCH_WEIGHT ELSE 0)
                        + (IF subject_match THEN SUBJECT_MATCH_WEIGHT ELSE 0)
                        + Min(user_context.clearance_level * 100, MAX_CLEARANCE_BONUS)]

\* contact scores that fall with the familiarity of the sender
AnalyzeContactPatternsDistrust(email_data, user_context) ==
  LET sender == Get(email_data.sender, Str(""))
      contacts == user_context.common_contacts
  IN  IF contacts = {} \/ ~Truthy(sender) THEN [raised |-> FALSE, score |-> 0]
      ELSE IF sender.k # "str" THEN [raised |-> TRUE, score |-> 0]
      ELSE IF sender.s \in contacts THEN [raised |-> FALSE, score |-> 200]
      ELSE IF /\ Contains(sender.s, "@")
              /\ SplitSecond(sender.s, "@") # ""
              /\ \E c \in contacts :
                   Contains(c, "@") /\ SplitSecond(c, "@") = SplitSecond(sender.s, "@")
      THEN [raised |-> FALSE, score |-> 500]
      ELSE [raised |-> FALSE, score |-> 800]

\* _analyze_contact_patterns: [raised, score]
AnalyzeContactPatterns(email_data, user_context) ==
  LET sender == Get(email_data.sender, Str(""))
      contacts == user_context.common_contacts
  IN  IF contacts = {} \/ ~Truthy(sender) THEN [raised |-> FALSE, score |-> 0]
      ELSE IF sender.k # "str" THEN [raised |-> TRUE, score |-> 0]
      ELSE IF sender.s \in contacts THEN [raised |-> FALSE, score |-> 800]
      ELSE IF /\ Contains(sender.s, "@")
              /\ SplitSecond(sender.s, "@") # ""
              /\ \E c \in contacts :
                   Contains(c, "@") /\ SplitSecond(c, "@") = SplitSecond(sender.s, "@")
      THEN [raised |-> FALSE, score |-> 500]
      ELSE [raised |-> FALSE, score |-> 200]

\* _combine_scores: weights 0.4, 0.3, 0.3, clamped to [0, 1]
CombineScores(role_score, dept_score, contact_score) ==
  Min(1000, Max(0, (role_score * 4 + dept_score * 3 + contact_score * 3) \div 10))

\* int(t.split(':')[0]) for "HH:MM"
HourOf(t) ==
  LET h == SplitFirst(t, ":")
      Digit(c) == (CHOOSE i \in 1..10 : CharAt(DIGITS, i) = c) - 1
  IN  IF Len(h) = 2 THEN 10 * Digit(CharAt(h, 1)) + Digit(CharAt(h, 2))
      ELSE Digit(CharAt(h, 1))

\* _is_contextual_anomaly, at the hour of the day current_hour
IsContextualAnomaly(patterns, email_data, user_context, current_hour) ==
  LET role_patterns == SelectSeq(patterns, LAMBDA p : p.role = user_context.role)
      hours == UNION {{HourOf(role_patterns[i].typical_times[j]) :
                         j \in 1..Len(role_patterns[i].typical_times)} :
                      i \in 1..Len(role_patterns)}
      typical_senders == {role_patterns[i].sender : i \in 1..Len(role_patterns)}
      sender == Get(email_data.sender, None)
  IN  /\ role_patterns # <<>>
      /\ \/ hours # {} /\ current_hour \notin hours
         \/ ~(sender.k = "str" /\ sender.s \in typical_senders)

role_threats ==
  [finance |-> << <<"bank", "Möglicher Banking-Trojaner">>,
                  <<"rechnung", "Gefälschte Rechnung">>,
                  <<"zahlung", "Gefälschte Zahlungsaufforderung">> >>,
   hr |-> << <<"bewerbung", "Gefälschte Bewerbung">>,
             <<"lebenslauf", "Manipulierter Lebenslauf">>,
             <<"vertrag", "Gefälschter Arbeitsvertrag">> >>,
   it |-> << <<"admin", "Gefälschte Admin-Anfrage">>,
             <<"passwort", "Passwort-Phishing">>,
             <<"zugang", "Unbefugter Zugriffsversuch">> >>]

\* str(v) inside an f-string
Format(v) == IF v.k = "str" THEN v.s ELSE IF v.k = "none" THEN "None" ELSE Repr(v)

\* _get_role_specific_threats
RoleSpecificThreats(email_data, user_context) ==
  LET role == Lower(user_context.role)
      content == Lower(Format(Get(email_data.subject, Str(""))) \o " "
                         \o Format(Get(email_data.body, Str(""))))
  IN  IF role \notin DOMAIN role_threats THEN <<>>
      ELSE LET hit == SelectSeq(role_threats[role], LAMBDA kt : Contains(content, kt[1]))
           IN  [i \in 1..Len(hit) |-> hit[i][2]]

\* _generate_actions
GenerateActions(context_score, user_context) ==
  IF context_score < 300
  THEN <<"Sofort IT-Sicherheit informieren", "E-Mail nicht öffnen oder beantworten">>
  ELSE IF context_score < 600
  THEN (IF user_context.clearance_level >= 4
        THEN <<"Eigenständige Prüfung durch erfahrenen Mitarbeiter">>
        ELSE <<"Vorgesetzten zur Prüfung vorlegen">>)
  ELSE <<"Normale Vorsichtsmaßnahmen beachten">>

EmptyAnalysis ==
  [context_score |-> 0, context_factors |-> <<>>, role_specific_threats |-> <<>>,
   suggested_actions |-> <<>>]

\* analyze_with_context: an exception in the department or contact analysis
\* leaves the analysis at its initial values
AnalyzeWithContext(role_models, patterns, email_data, user_context, current_hour) ==
  LET role_score == AnalyzeRoleSpecific(role_models, email_data, user_context)
      dept == AnalyzeDepartmentSpecific(patterns, email_data, user_context)
      contact == AnalyzeContactPatterns(email_data, user_context)
      score == CombineScores(role_score, dept.score, contact.score)
  IN  IF dept.raised \/ contact.raised THEN EmptyAnalysis
      ELSE [context_score |-> score,
            context_factors |->
              IF IsContextualAnomaly(patterns, email_data, user_context, current_hour)
              THEN <<"Ungewöhnliches Kommunikationsmuster für diese Rolle/Abteilung">>
              ELSE <<>>,
            role_specific_threats |-> RoleSpecificThreats(email_data, user_context),
            suggested_actions |-> GenerateActions(score, user_context)]

(***************************************************************************)
(* ThreatClusterAnalyzer.analyze_email_patterns on the batch of one        *)
(* message that analyze_email hands it.                                    *)
(***************************************************************************)
DBSCAN_MIN_SAMPLES == 3

\* _extract_email_features: [raised, text]
ClusterExtractFeatures(email) ==
  LET subject == Get(email.subject, Str(""))
      body == Get(email.body, Str(""))
      sender == Get(email.sender, Str(""))
      attachments == Get(email.attachments, List(<<>>))
  IN  IF \/ sender.k # "str"                            \* "@" in sender
         \/ attachments.k # "list"                      \* for att in attachments
         \/ \E i \in 1..Len(attachments.xs) : attachments.xs[i].k # "str"
         \/ subject.k # "str" \/ body.k # "str"         \* " ".join(features)
      THEN [raised |-> TRUE, text |-> ""]
      ELSE [raised |-> FALSE,
            text |-> JoinStr(" ",
                       <<subject.s, body.s>>
                         \o (IF Contains(sender.s, "@")
                             THEN <<"domain_" \o SplitSecond(sender.s, "@")>> ELSE <<>>)
                         \o [i \in 1..Len(attachments.xs) |->
                               "attachment_" \o Splitext(attachments.xs[i].s)])]

\* DBSCAN's label of the only sample of a batch of one: a sample is a core
\* point when its neighbourhood, itself included, has min_samples members
SingleSampleLabel == IF 1 >= DBSCAN_MIN_SAMPLES THEN 0 ELSE -1

EmptyDict == [k |-> "empty"]

\* analyze_email_patterns([email]): {} when feature extraction or the
\* vectorizer (empty vocabulary) raises
AnalyzeEmailPatterns(email) ==
  LET features == ClusterExtractFeatures(email)
  IN  IF features.raised \/ ~HasToken(features.text) THEN EmptyDict
      ELSE IF SingleSampleLabel = -1
      THEN [k |-> "dict", new_patterns |-> <<>>, total_clusters |-> 0, noise_points |-> 1]
      ELSE [k |-> "dict", new_patterns |-> <<"pattern">>, total_clusters |-> 1,
            noise_points |-> 0]

HISTORY_CAP == 1000
\* the shares of _find_common_indicators and the similarity of _is_known_pattern,
\* in per cent
COMMON_INDICATOR_PERCENT == 50
COMMON_OTHER_PERCENT == 30
SIMILARITY_PERCENT == 70

\* a history that keeps its first entries when it is full
UpdatedClusterHistoryOldest(cluster_history, new_patterns) ==
  LET extended == cluster_history \o new_patterns
  IN  IF Len(extended) > HISTORY_CAP THEN SubSeq(extended, 1, HISTORY_CAP) ELSE extended

\* _update_cluster_history: self.cluster_history after it
UpdatedClusterHistory(cluster_history, new_patterns) ==
  LET extended == cluster_history \o new_patterns
  IN  IF Len(extended) > HISTORY_CAP
      THEN SubSeq(extended, Len(extended) - HISTORY_CAP + 1, Len(extended))
      ELSE extended

\* cluster_result.get('new_patterns'), as a truth value
HasNewPatterns(cluster_result) ==
  cluster_result.k = "dict" /\ cluster_result.new_patterns # <<>>

\* a member message of a cluster: its indicator texts (written as numbers), its
\* sender, its attachment names and its analyzed URLs
Member(indicators, sender, attachments, analyzed_urls) ==
  [indicators |-> indicators, sender |-> sender, attachments |-> attachments,
   analyzed_urls |-> analyzed_urls]

RECURSIVE Extended(_, _)
\* the list that extend() builds from field f of every email
Extended(emails, f) ==
  IF emails = <<>> THEN <<>> ELSE Head(emails)[f] \o Extended(Tail(emails), f)

\* the senders' domains, one for each email whose sender holds an "@"
Domains(emails) ==
  LET with == SelectSeq(emails, LAMBDA email : Contains(email.sender, "@"))
  IN  [i \in 1..Len(with) |-> SplitSecond(with[i].sender, "@")]

\* Counter(xs)[x]
Count(xs, x) == Cardinality({i \in 1..Len(xs) : xs[i] = x})

\* the keys of Counter(xs) counted at least percent per cent of n times
Frequent(xs, n, percent) ==
  {xs[i] : i \in {j \in 1..Len(xs) : 100 * Count(xs, xs[j]) >= percent * n}}

\* _find_common_indicators: the four lists, each written as the set of its
\* elements
FindCommonIndicators(emails) ==
  [common_indicators |->
     Frequent(Extended(emails, "indicators"), Len(emails), COMMON_INDICATOR_PERCENT),
   common_domains |-> Frequent(Domains(emails), Len(emails), COMMON_OTHER_PERCENT),
   common_attachment_types |->
     {Splitext(att) :
        att \in Frequent(Extended(emails, "attachments"), Len(emails), COMMON_OTHER_PERCENT)},
   common_url_patterns |->
     Frequent(Extended(emails, "analyzed_urls"), Len(emails), COMMON_OTHER_PERCENT)]

\* similarity > 0.7 for the Jaccard similarity of two sets that are not empty
Similar(known_indicators, new_indicators) ==
  100 * Cardinality(known_indicators \cap new_indicators)
    > SIMILARITY_PERCENT * Cardinality(known_indicators \cup new_indicators)

\* _is_known_pattern
IsKnownPattern(cluster_history, characteristics) ==
  \E i \in 1..Len(cluster_history) :
    LET known_indicators == cluster_history[i].characteristics.common_indicators
        new_indicators == characteristics.common_indicators
    IN  /\ known_indicators # {}
        /\ new_indicators # {}
        /\ Similar(known_indicators, new_indicators)

\* _identify_new_patterns: one pattern for every cluster, in the order of the
\* labels, that is not known from the history
IdentifyNewPatterns(cluster_history, clusters) ==
  LET unknown == {c \in 1..Len(clusters) :
                    ~IsKnownPattern(cluster_history, FindCommonIndicators(clusters[c]))}
      RECURSIVE Patterns(_)
      Patterns(c) ==
        IF c > Len(clusters) THEN <<>>
        ELSE (IF c \in unknown
              THEN <<[cluster_id |-> c - 1,
                      characteristics |-> FindCommonIndicators(clusters[c]),
                      sample_size |-> Len(clusters[c])]>>
              ELSE <<>>) \o Patterns(c + 1)
  IN  Patterns(1)

(***************************************************************************)
(* ProactiveThreatDefense.analyze_trends.  Time is counted in hours.       *)
(***************************************************************************)
WINDOWS == [short |-> 24, medium |-> 7 * 24, long |-> 30 * 24]

ThreatRecord(timestamp, type, score) ==
  [timestamp |-> timestamp, type |-> type, score |-> score]

\* a window that leaves out the record stamped exactly at its start
WindowRecordsStrict(history, start_time) ==
  SelectSeq(history, LAMBDA r : r.timestamp > start_time)

\* [r for r in self._history if r.timestamp >= start_time]
WindowRecords(history, start_time) ==
  SelectSeq(history, LAMBDA r : r.timestamp >= start_time)

RECURSIVE SumScores(_)
SumScores(records) ==
  IF records = <<>> THEN 0 ELSE Head(records).score + SumScores(Tail(records))

RECURSIVE TypeOrder(_, _)
\* the keys of Counter(r.type for r in records), in insertion order
TypeOrder(records, seen) ==
  IF records = <<>> THEN seen
  ELSE IF \E i \in 1..Len(seen) : seen[i] = Head(records).type
  THEN TypeOrder(Tail(records), seen)
  ELSE TypeOrder(Tail(records), Append(seen, Head(records).type))

TypeCount(records, type) == Len(SelectSeq(records, LAMBDA r : r.type = type))

\* one entry of window_analysis; avg_severity in hundredths
WindowAnalysis(history, now_, delta) ==
  LET window_records == WindowRecords(history, now_ - delta)
      types == TypeOrder(window_records, <<>>)
  IN  [total_threats |-> Len(window_records),
       avg_severity |-> IF window_records = <<>> THEN 0
                        ELSE Round2(Frac(SumScores(window_records), Len(window_records))),
       type_distribution |-> [i \in 1..Len(types) |->
                                <<types[i], TypeCount(window_records, types[i])>>]]

\* max(short_dist, key=short_dist.get): the first key with the greatest count
Dominant(dist) ==
  LET i == CHOOSE i \in 1..Len(dist) :
             /\ \A j \in 1..Len(dist) : dist[j][2] <= dist[i][2]
             /\ \A j \in 1..(i - 1) : dist[j][2] < dist[i][2]
  IN  dist[i][1]

\* recommendations that leave out the one for the dominant type
RecommendationsSeverityOnly(short) ==
  IF short.avg_severity > 700
  THEN <<"Hohe durchschnittliche Schwere im letzten Tag beobachten">>
  ELSE <<>>

Recommendations(short) ==
  (IF short.type_distribution # <<>>
   THEN <<"Verstärkte Überwachung für " \o Dominant(short.type_distribution)
            \o "-Mails empfohlen">>
   ELSE <<>>)
    \o (IF short.avg_severity > 700
        THEN <<"Hohe durchschnittliche Schwere im letzten Tag beobachten">>
        ELSE <<>>)

\* the result of analyze_trends over the history as it is after the append
TrendResult(history, now_) ==
  LET short == WindowAnalysis(history, now_, WINDOWS.short)
      medium == WindowAnalysis(history, now_, WINDOWS.medium)
      long == WindowAnalysis(history, now_, WINDOWS.long)
  IN  [window_analysis |-> [short |-> short, medium |-> medium, long |-> long],
       forecasts |-> [next_24h |-> short.total_threats,
                      next_week |-> medium.total_threats,
                      confidence |-> Min(Len(history), 99)],
       recommendations |-> Recommendations(short)]

(***************************************************************************)
(* Inputs: the messages, user contexts and communication patterns the      *)
(* operations are called with.                                             *)
(***************************************************************************)
\* sender "", subject "", body "", attachments []
EmptyMessage == Message(Str(""), Str(""), Str(""), List(<<>>))
\* suspicious_email of test_high_threat_email
HighThreatMessage ==
  Message(Str("DRINGEND: Ihr Konto wurde gesperrt"), Str("bank-support@suspicious.com"),
          Str("Klicken Sie hier um Ihr Konto zu entsperren: http://fake-bank.com"),
          Strs(<<"update.exe">>))
\* an ordinary message without body text
BenignMessage == Message(Str("Protokoll"), Str("kollege@firma.de"), Str(""), List(<<>>))
\* the body is present with the value None, the attachments key is missing
NullBodyMessage == Message(Str("Hallo"), Str("a@b.de"), None, Absent)
\* {}: every field is missing
AbsentFieldsMessage == Message(Absent, Absent, Absent, Absent)
\* no body text, every rule check of the other fields fires
LoadedMessage ==
  Message(Str("DRINGEND: Bank"), Str("x@evil.xyz"), Str(""),
          Strs(<<"a.exe", "b.exe", "c.exe">>))

\* no body text, five high-risk keywords in the subject, a suspicious sender
\* domain and ten executable attachments
OverloadedMessage ==
  Message(Str("Dringend sofort: Bank Konto Passwort"), Str("x@evil.xyz"), Str(""),
          Strs(<<"a.exe", "b.exe", "c.exe", "d.exe", "e.exe", "f.exe", "g.exe",
                 "h.exe", "i.exe", "j.exe">>))

Corpus ==
  <<EmptyMessage, HighThreatMessage, BenignMessage, NullBodyMessage,
    AbsentFieldsMessage, LoadedMessage, OverloadedMessage>>
Messages == 1..Len(Corpus)
\* the messages of the runs that train, add patterns and analyse
RunMessages == {1, 2, 3, 4, 5, 6}

\* the messages MLAnalyzer.train is called with
TrainMessages == {1, 3}
\* the observed scores train is called with, in thousandths
TrainScores == {-500, 2799}
\* values between the observed scores
MixedPredictions == {0, 1000}

FinanceContext == UserContext("finance", "finance", 2, {"kollege@firma.de"})
\* FinanceContext with another contact of the domain firma.de
DomainContext == UserContext("finance", "finance", 2, {"chef@firma.de"})
\* FinanceContext with a contact of another domain
StrangerContext == UserContext("finance", "finance", 2, {"info@other.org"})
Contexts == <<NoContext, FinanceContext, DomainContext, StrangerContext>>
\* the contexts of the runs that train, add patterns and analyse
RunContexts == {1, 2}

FinancePattern ==
  [department |-> "finance", role |-> "finance", sender |-> "kollege@firma.de",
   typical_subjects |-> <<"Protokoll">>, typical_times |-> <<"09:00">>]
PatternData == {FinancePattern}

(***************************************************************************)
(* Bounds                                                                  *)
(***************************************************************************)
MaxAnalyses == 2
MaxHistory == 4
MaxClusterUpdates == 5
MaxTrain == 10
MaxPatterns == 1
MaxAdded == 4
MaxFeedback == 62
MaxDisagree == 1
MaxScans == 3
MaxFileLen == 4
ChunkSize == 2
MaxAttachments == 3
MaxClusters == 2
MaxPatternBatches == 2
MaxMembers == 4
MaxTicks == 1
TickHours == 25
StartHour == 9

MaxLevelIndex == 44
LevelStep == 250

Threads == {1, 2}
\* the messages of the two refresh workers
WorkerMessages == {1, 2, 3}
\* the messages a mail client's get_emails returns
ScanMessages == {2, 3}

\* the scores get_threat_level is called with: a grid from -1.0 to 11.0, the
\* neighbours of the thresholds, and 6.9975
LevelScores ==
  {Frac(k * LevelStep, 1) : k \in -4..MaxLevelIndex}
    \cup {Frac(n, 1) : n \in {3999, 4000, 4001, 6999, 7000, 7001}}
    \cup {Frac(13995, 2)}

(***************************************************************************)
(* The results of the rule checks, the threat type, the ML features and    *)
(* the cluster analysis depend on the message alone; they are computed     *)
(* once for each message of the corpus.                                    *)
(***************************************************************************)
SenderCheck == [m \in Messages |-> CheckSender(Get(Corpus[m].sender, Str("")))]
SubjectCheck == [m \in Messages |-> CheckSubject(Get(Corpus[m].subject, Str("")))]
BodyInput == [m \in Messages |-> Get(Corpus[m].body, Str(""))]
BodyCheck ==
  [m \in Messages |-> [order \in UrlOrders(BodyInput[m]) |-> CheckBody(BodyInput[m], order)]]
AttachmentCheck ==
  [m \in Messages |-> CheckAttachments(Get(Corpus[m].attachments, List(<<>>)))]
ThreatType == [m \in Messages |-> DetermineThreatType(Corpus[m])]
MLFeatures == [m \in Messages |-> MLExtractFeatures(Corpus[m])]
MLHasToken == [m \in Messages |-> ~MLFeatures[m].raised /\ HasToken(MLFeatures[m].text)]
ClusterAnalysis == [m \in Messages |-> AnalyzeEmailPatterns(Corpus[m])]

\* the values org_context["communication_patterns"] takes
PatternLists == UNION {[1..n -> PatternData] : n \in 0..MaxPatterns}
\* the hours of the day the clock shows
Hours == {(StartHour + i * TickHours) % 24 : i \in 0..MaxTicks}
\* analyze_with_context depends on the message, the user context, the
\* communication patterns and the hour of the day
ContextAnalysis ==
  [m \in Messages |->
    [c \in DOMAIN Contexts |->
      [patterns \in PatternLists |->
        [hour \in Hours |->
          IF Contexts[c].k = "dict"
          THEN AnalyzeWithContext({}, patterns, Corpus[m], Contexts[c], hour)
          ELSE EmptyAnalysis]]]]

(***************************************************************************)
(* State                                                                   *)
(***************************************************************************)
VARIABLES
  training_data,            \* MLAnalyzer.training_data
  model,                    \* MLAnalyzer.model
  communication_patterns,   \* org_context["communication_patterns"]
  role_models,              \* the roles ContextAwareAnalyzer.role_models has a model for
  history,                  \* ProactiveThreatDefense._history
  now,                      \* datetime.now(), in hours
  threat_score,             \* ThreatAnalyzer.threat_score
  threat_indicators,        \* ThreatAnalyzer.threat_indicators
  urls_found,               \* ThreatAnalyzer.urls_found
  pc,                       \* where each thread is in analyze_email
  frame,                    \* the arguments and local variables of each thread's call
  outcome,                  \* what each thread's last analyze_email call gave its caller
  analyses,                 \* the number of analyze_email calls so far
  levels                    \* the last two get_threat_level calls: arguments and result

\* the objects that are used on their own, besides the ThreatAnalyzer
VARIABLES
  ml_analyzer,              \* MLAnalyzer: its train calls and its last analyze_email call
  proactive_defense,        \* ProactiveThreatDefense: its direct analyze_trends calls
  cluster_analyzer,         \* ThreatClusterAnalyzer: cluster_history and its last call
  context_store,            \* ContextAwareAnalyzer: organization_context.json, the roles of
                            \* org_context and the roles its last update named
  feedback_learner,         \* FeedbackLearner: feedback_data, its file and its calls
  scanner,                  \* EmailScanner: its configuration and its last get_emails call
  threat_intel,             \* ThreatIntelligence: its key and its last analyze_attachment call
  helper_call               \* the last direct call of a single method: arguments and result

analyzer_vars ==
  <<training_data, model, communication_patterns, role_models, history, now,
    threat_score, threat_indicators, urls_found, pc, frame, outcome, analyses, levels>>

services ==
  <<proactive_defense, cluster_analyzer, feedback_learner, scanner, threat_intel, helper_call>>

vars == <<analyzer_vars, ml_analyzer, context_store, services>>

NoOutcome == [k |-> "none"]
RaisedOutcome == [k |-> "raised"]

\* the frame of a call that has not computed anything yet
NewFrame(email, user_context, prediction, order) ==
  [email |-> email, user_context |-> user_context, prediction |-> prediction,
   order |-> order,
   sender_score |-> 0, subject_score |-> 0, body_score |-> 0, attachment_score |-> 0,
   ml_score |-> 0, ml_confidence |-> 0,
   context_result |-> None, context_score |-> 0,
   cluster_result |-> None, cluster_score |-> 0,
   proactive_result |-> None]

NoCall == [k |-> "none"]

\* no organization_context.json in the storage directory
NoFile == [k |-> "nofile"]

\* organization_context.json as _save_organization_context writes it; roles is
\* Absent for a context without the key roles
SavedContext(patterns, roles) ==
  [k |-> "file", communication_patterns |-> patterns, roles |-> roles]

\* _load_organization_context: the communication patterns of the context
\* it returns
LoadOrganizationContext(context_file) ==
  IF context_file.k = "file" THEN context_file.communication_patterns ELSE <<>>

\* org_context["roles"] of the context _load_organization_context returns
LoadRoles(context_file) == IF context_file.k = "file" THEN context_file.roles ELSE Absent

\* _load_role_models: one model for every role of org_context.get("roles", [])
LoadRoleModels(roles) ==
  IF roles.k = "list" THEN {roles.xs[i] : i \in 1..Len(roles.xs)} ELSE {}

Init ==
  /\ training_data = NoTrainingData
  /\ model = UnfittedModel
  /\ communication_patterns = <<>>
  /\ role_models = {}
  /\ history = <<>>
  /\ now = StartHour
  /\ threat_score = Frac(0, 1)
  /\ threat_indicators = <<>>
  /\ urls_found = {}
  /\ pc = [t \in Threads |-> "idle"]
  /\ frame = [t \in Threads |-> NewFrame(0, 1, 0, <<>>)]
  /\ outcome = [t \in Threads |-> NoOutcome]
  /\ analyses = 0
  /\ levels = <<NoCall, NoCall>>
  /\ ml_analyzer = [train_calls |-> 0, retrains |-> 0, result |-> NoCall]
  /\ proactive_defense = [ingested |-> <<>>, result |-> NoCall]
  /\ cluster_analyzer = [cluster_history |-> <<>>, appended |-> 0, updates |-> 0,
                         result |-> NoCall]
  /\ context_store = [context_file |-> NoFile, added |-> <<>>, roles |-> Absent,
                      referenced |-> {}]
  /\ feedback_learner = [feedback_data |-> <<>>, feedback_file |-> <<>>, fitted |-> FALSE,
                         calls |-> 0, retrains |-> 0, outcome |-> NoCall]
  /\ scanner = [config |-> [client |-> Absent, exchange_section |-> FALSE], scans |-> 0,
                outcome |-> NoCall]
  /\ threat_intel = [vt_api_key |-> None, call |-> NoCall]
  /\ helper_call = NoCall

(***************************************************************************)
(* ThreatAnalyzer.analyze_email, statement by statement.  A machine state  *)
(* st holds the position pc of the call, its frame, the analyzer fields    *)
(* the call reads and writes, and the outcome; env holds the state of the  *)
(* collaborators the call only reads.                                      *)
(***************************************************************************)
\* a rule check has run: its indicators and URLs are on self, its score in
\* the local variable, or the exception leaves analyze_email
AfterCheck(st, r, local, next) ==
  IF r.raised
  THEN [st EXCEPT !.pc = "raised", !.outcome = RaisedOutcome,
                  !.threat_indicators = @ \o r.inds,
                  !.urls_found = @ \cup r.urls]
  ELSE [st EXCEPT !.pc = next, !.frame[local] = r.score,
                  !.threat_indicators = @ \o r.inds,
                  !.urls_found = @ \cup r.urls]

\* a reset that leaves the indicators of the earlier call on self
StepResetKeepsIndicators(st) ==
  [st EXCEPT !.pc = "sender", !.threat_score = Frac(0, 1), !.urls_found = {}]

\* lines 38 to 40
StepReset(st) ==
  [st EXCEPT !.pc = "sender", !.threat_score = Frac(0, 1),
             !.threat_indicators = <<>>, !.urls_found = {}]

\* lines 49 to 51
StepML(st, env) ==
  LET ml_result == MLAnalyzeEmail(env.model, MLFeatures[st.frame.email],
                                  st.frame.prediction)
  IN  [st EXCEPT !.pc = "context", !.frame.ml_score = ml_result.ml_score,
                 !.frame.ml_confidence = ml_result.confidence]

\* lines 54 to 59
StepContext(st, env) ==
  LET user_context == Contexts[st.frame.user_context]
      context_result ==
        ContextAnalysis[st.frame.email][st.frame.user_context]
                       [env.communication_patterns][env.now % 24]
  IN  IF user_context.k = "dict"
      THEN [st EXCEPT !.pc = "cluster", !.frame.context_result = context_result,
                      !.frame.context_score = context_result.context_score,
                      !.threat_indicators = @ \o context_result.role_specific_threats]
      ELSE [st EXCEPT !.pc = "cluster", !.frame.context_score = 0]

\* lines 62 to 67
StepCluster(st) ==
  LET cluster_result == ClusterAnalysis[st.frame.email]
  IN  IF HasNewPatterns(cluster_result)
      THEN [st EXCEPT !.pc = "trend", !.frame.cluster_result = cluster_result,
                      !.frame.cluster_score = 2000,
                      !.threat_indicators = Append(@, "Neues Bedrohungsmuster erkannt")]
      ELSE [st EXCEPT !.pc = "trend", !.frame.cluster_result = cluster_result,
                      !.frame.cluster_score = 0]

\* lines 70 to 76
StepTrend(st, env) ==
  LET type == ThreatType[st.frame.email]
      f == st.frame
      record == ThreatRecord(env.now, type.type,
                  RuleAverage(f.sender_score, f.subject_score, f.body_score,
                              f.attachment_score))
  IN  IF type.raised
      THEN [st EXCEPT !.pc = "raised", !.outcome = RaisedOutcome]
      ELSE [st EXCEPT !.pc = "fuse", !.history = Append(@, record),
                      !.frame.proactive_result = TrendResult(Append(st.history, record),
                                                             env.now)]

\* a combination that adds the forecast of the trend analysis with the
\* weight of the proactive defence
StepFuseWithForecast(st) ==
  LET f == st.frame
      weights == FusionWeights(f.ml_confidence, Contexts[f.user_context].k = "dict")
  IN  [st EXCEPT !.pc = "normalise",
                 !.threat_score =
                   WeightedScore(RuleAverage(f.sender_score, f.subject_score,
                                             f.body_score, f.attachment_score),
                                 f.ml_score, f.context_score,
                                 f.cluster_score
                                   + 100 * (f.proactive_result.forecasts.next_24h - 1),
                                 weights)]

\* lines 79 to 92
StepFuse(st) ==
  LET f == st.frame
      weights == FusionWeights(f.ml_confidence, Contexts[f.user_context].k = "dict")
  IN  [st EXCEPT !.pc = "normalise",
                 !.threat_score =
                   WeightedScore(RuleAverage(f.sender_score, f.subject_score,
                                             f.body_score, f.attachment_score),
                                 f.ml_score, f.context_score, f.cluster_score, weights)]

\* line 95
StepNormalise(st) == [st EXCEPT !.pc = "recommend", !.threat_score = Normalise(@)]

\* lines 98 and 99
StepRecommend(st) ==
  [st EXCEPT !.pc = "return",
             !.threat_indicators = @ \o st.frame.proactive_result.recommendations]

\* lines 101 to 110
Verdict(st) ==
  [k |-> "verdict",
   score |-> Round2(st.threat_score),
   level |-> GetThreatLevel(st.threat_score, TRUE),
   indicators |-> st.threat_indicators,
   analyzed_urls |-> st.urls_found,
   ml_confidence |-> st.frame.ml_confidence,
   context_analysis |-> IF Contexts[st.frame.user_context].k = "dict"
                        THEN st.frame.context_result ELSE None,
   cluster_analysis |-> st.frame.cluster_result,
   trend_analysis |-> st.frame.proactive_result]

StepReturn(st) == [st EXCEPT !.pc = "done", !.outcome = Verdict(st)]

\* the next statement of the call
Step(st, env) ==
  CASE st.pc = "reset" -> StepReset(st)
    [] st.pc = "sender" ->
         AfterCheck(st, SenderCheck[st.frame.email], "sender_score", "subject")
    [] st.pc = "subject" ->
         AfterCheck(st, SubjectCheck[st.frame.email], "subject_score", "body")
    [] st.pc = "body" ->
         AfterCheck(st, BodyCheck[st.frame.email][st.frame.order], "body_score",
                    "attachments")
    [] st.pc = "attachments" ->
         AfterCheck(st, AttachmentCheck[st.frame.email], "attachment_score", "ml")
    [] st.pc = "ml" -> StepML(st, env)
    [] st.pc = "context" -> StepContext(st, env)
    [] st.pc = "cluster" -> StepCluster(st)
    [] st.pc = "trend" -> StepTrend(st, env)
    [] st.pc = "fuse" -> StepFuse(st)
    [] st.pc = "normalise" -> StepNormalise(st)
    [] st.pc = "recommend" -> StepRecommend(st)
    [] st.pc = "return" -> StepReturn(st)

Running(p) == p \notin {"idle", "done", "raised"}

RECURSIVE Run(_, _)
\* the call from st to its end without another thread in between
Run(st, env) == IF Running(st.pc) THEN Run(Step(st, env), env) ELSE st

(***************************************************************************)
(* Actions                                                                 *)
(***************************************************************************)
Env ==
  [model |-> model, role_models |-> role_models,
   communication_patterns |-> communication_patterns, now |-> now]

\* the machine state of thread t
Machine(t) ==
  [pc |-> pc[t], frame |-> frame[t], threat_score |-> threat_score,
   threat_indicators |-> threat_indicators, urls_found |-> urls_found,
   history |-> history, outcome |-> outcome[t]]

\* thread t is in machine state st
Becomes(t, st) ==
  /\ pc' = [pc EXCEPT ![t] = st.pc]
  /\ frame' = [frame EXCEPT ![t] = st.frame]
  /\ outcome' = [outcome EXCEPT ![t] = st.outcome]
  /\ threat_score' = st.threat_score
  /\ threat_indicators' = st.threat_indicators
  /\ urls_found' = st.urls_found
  /\ history' = st.history

\* the values model.predict may return.  A forest fitted on targets that
\* are all the same value answers with that value; fitted on different
\* targets it answers with a mean of some of them, which depends on the
\* bootstrap samples and the split of the data: any value between them
Predictions(m) ==
  IF ~m.fitted THEN {0}
  ELSE IF m.lo = m.hi THEN {m.lo}
  ELSE {p \in MixedPredictions : m.lo < p /\ p < m.hi}

\* the call analyze_email(Corpus[email], Contexts[user_context]) entered by
\* thread t
Entered(t, email, user_context, prediction, order) ==
  [Machine(t) EXCEPT !.pc = "reset",
                     !.frame = NewFrame(email, user_context, prediction, order),
                     !.outcome = NoOutcome]

\* MLAnalyzer.train(Corpus[email], score)
Train(email, score) ==
  /\ training_data.n < MaxTrain
  /\ ml_analyzer.train_calls < MaxTrain
  /\ \A t \in Threads : ~Running(pc[t])
  /\ LET features == MLFeatures[email]
         sender == Get(Corpus[email].sender, Str(""))
         data == AppendSample(training_data, MLHasToken[email], score)
     IN  IF features.raised \/ sender.k # "str"
         THEN /\ UNCHANGED <<training_data, model>>
              /\ ml_analyzer' = [ml_analyzer EXCEPT !.train_calls = @ + 1]
         ELSE /\ training_data' = data
              /\ model' = IF RetrainDue(data) THEN RetrainModel(model, data) ELSE model
              /\ ml_analyzer' =
                   [ml_analyzer EXCEPT !.train_calls = @ + 1,
                                       !.retrains = IF RetrainDue(data) THEN @ + 1 ELSE @]
  /\ UNCHANGED <<communication_patterns, role_models, history, now, threat_score,
                 threat_indicators, urls_found, pc, frame, outcome, analyses, levels>>
  /\ UNCHANGED <<context_store, services>>

\* ContextAwareAnalyzer.add_communication_pattern(pattern_data)
AddCommunicationPattern(pattern_data) ==
  /\ Len(communication_patterns) < MaxPatterns
  /\ Len(context_store.added) < MaxAdded
  /\ \A t \in Threads : ~Running(pc[t])
  /\ communication_patterns' = Append(communication_patterns, pattern_data)
  /\ context_store' = [context_file |-> SavedContext(Append(communication_patterns,
                                                            pattern_data),
                                                     context_store.roles),
                       added |-> Append(context_store.added, pattern_data),
                       roles |-> context_store.roles,
                       referenced |-> {pattern_data.role}]
  /\ role_models' = role_models \cup {pattern_data.role}
  /\ UNCHANGED <<training_data, model, history, now, threat_score, threat_indicators,
                 urls_found, pc, frame, outcome, analyses, levels>>
  /\ UNCHANGED <<ml_analyzer, services>>

\* time passes
Tick ==
  /\ now < StartHour + MaxTicks * TickHours
  /\ now' = now + TickHours
  /\ UNCHANGED <<training_data, model, communication_patterns, role_models, history,
                 threat_score, threat_indicators, urls_found, pc, frame, outcome,
                 analyses, levels>>
  /\ UNCHANGED <<ml_analyzer, context_store, services>>

\* ThreatAnalyzer.analyze_email(Corpus[email], Contexts[user_context]), from
\* its first statement to its return or its exception
AnalyzeEmail(email, user_context) ==
  /\ analyses < MaxAnalyses
  /\ \A t \in Threads : ~Running(pc[t])
  /\ analyses' = analyses + 1
  /\ \E prediction \in Predictions(model), order \in DOMAIN BodyCheck[email] :
       Becomes(1, Run(Entered(1, email, user_context, prediction, order), Env))
  /\ UNCHANGED <<training_data, model, communication_patterns, role_models, now, levels>>
  /\ UNCHANGED <<ml_analyzer, context_store, services>>

Next ==
  \/ \E email \in TrainMessages, score \in TrainScores : Train(email, score)
  \/ \E pattern_data \in PatternData : AddCommunicationPattern(pattern_data)
  \/ Tick
  \/ \E email \in RunMessages, user_context \in RunContexts :
       AnalyzeEmail(email, user_context)

Spec == Init /\ [][Next]_vars

\* analyze_email on every message of the corpus while time passes
NextSeverity ==
  \/ Tick
  \/ \E email \in Messages, user_context \in RunContexts :
       AnalyzeEmail(email, user_context)

SpecSeverity == Init /\ [][NextSeverity]_vars

\* analyze_email under contexts that differ in their common contacts
NextContact ==
  \/ \E pattern_data \in PatternData : AddCommunicationPattern(pattern_data)
  \/ \E email \in Messages, user_context \in DOMAIN Contexts :
       AnalyzeEmail(email, user_context)

SpecContact == Init /\ [][NextContact]_vars

(***************************************************************************)
(* get_threat_level on its own                                             *)
(***************************************************************************)
\* get_threat_level(score, use_icon)
GetLevel(score, use_icon) ==
  /\ levels' = <<levels[2],
                 [k |-> "call", score |-> score, use_icon |-> use_icon,
                  level |-> GetThreatLevel(score, use_icon)]>>
  /\ UNCHANGED <<training_data, model, communication_patterns, role_models, history,
                 now, threat_score, threat_indicators, urls_found, pc, frame, outcome,
                 analyses>>
  /\ UNCHANGED <<ml_analyzer, context_store, services>>

NextLevel == \E score \in LevelScores, use_icon \in BOOLEAN : GetLevel(score, use_icon)

SpecLevel == Init /\ [][NextLevel]_vars

(***************************************************************************)
(* Two EmailRefreshWorker threads on one ThreatAnalyzer: refresh_emails    *)
(* starts a worker on self.analyzer, and show_client_settings calls it     *)
(* while an earlier worker may still run.  A worker calls                  *)
(* analyze_email(email) without user context for each of its messages;     *)
(* the interpreter may switch threads between any two statements.          *)
(***************************************************************************)
\* worker t enters analyze_email(Corpus[email])
Begin(t, email) ==
  /\ ~Running(pc[t])
  /\ analyses < MaxAnalyses
  /\ analyses' = analyses + 1
  /\ \E prediction \in Predictions(model), order \in DOMAIN BodyCheck[email] :
       Becomes(t, Entered(t, email, 1, prediction, order))
  /\ UNCHANGED <<training_data, model, communication_patterns, role_models, now, levels>>
  /\ UNCHANGED <<ml_analyzer, context_store, services>>

\* worker t executes its next statement
ThreadStep(t) ==
  /\ Running(pc[t])
  /\ Becomes(t, Step(Machine(t), Env))
  /\ UNCHANGED <<training_data, model, communication_patterns, role_models, now,
                 analyses, levels>>
  /\ UNCHANGED <<ml_analyzer, context_store, services>>

NextConc ==
  \/ \E t \in Threads, email \in WorkerMessages : Begin(t, email)
  \/ \E t \in Threads : ThreadStep(t)

SpecConc == Init /\ [][NextConc]_vars

(***************************************************************************)
(* ProactiveThreatDefense.analyze_trends called on its own, as the         *)
(* dashboard and test_analyze_trends_returns_structure do.                 *)
(***************************************************************************)
Time(hour) == [k |-> "time", hour |-> hour]

\* sample_emails of test_analyze_trends_returns_structure: no timestamp key
SampleEmails ==
  <<[timestamp |-> Absent, type |-> "phishing", score |-> 5000],
    [timestamp |-> Absent, type |-> "malware", score |-> 8000]>>
\* one threat stamped exactly 24 hours before the start
BoundaryEmails == <<[timestamp |-> Time(StartHour - 24), type |-> "spam", score |-> 3000]>>
\* one threat stamped more than 24 hours before the start
StaleEmails == <<[timestamp |-> Time(StartHour - 30), type |-> "spam", score |-> 9000]>>

ThreatData == {<<>>, SampleEmails, BoundaryEmails, StaleEmails}

\* lines 93 to 102: the records made of the emails
NewRecords(emails, now_) ==
  [i \in 1..Len(emails) |->
     ThreatRecord(IF emails[i].timestamp = Absent THEN now_ ELSE emails[i].timestamp.hour,
                  emails[i].type, emails[i].score)]

\* ProactiveThreatDefense.analyze_trends(emails)
AnalyzeTrends(emails) ==
  /\ Len(history) + Len(emails) <= MaxHistory
  /\ history' = history \o NewRecords(emails, now)
  /\ proactive_defense' =
       [ingested |-> proactive_defense.ingested
                       \o [i \in 1..Len(emails) |-> NewRecords(emails, now)[i].timestamp],
        result |-> [k |-> "call", emails |-> emails, now |-> now,
                    result |-> TrendResult(history \o NewRecords(emails, now), now)]]
  /\ UNCHANGED <<training_data, model, communication_patterns, role_models, now,
                 threat_score, threat_indicators, urls_found, pc, frame, outcome,
                 analyses, levels>>
  /\ UNCHANGED <<ml_analyzer, context_store, cluster_analyzer, feedback_learner,
                 scanner, threat_intel, helper_call>>

NextTrend ==
  \/ \E emails \in ThreatData : AnalyzeTrends(emails)
  \/ Tick

SpecTrend == Init /\ [][NextTrend]_vars

(***************************************************************************)
(* ThreatClusterAnalyzer on its own.  A pattern is written as the number   *)
(* of patterns appended up to and including it.                            *)
(***************************************************************************)
\* the numbers of new patterns the clusters of a batch give
BatchPatterns == {1, 2, 499}

\* count patterns, none of which was appended before
NewPatterns(appended, count) == [i \in 1..count |-> appended + i]

\* analyze_email_patterns([Corpus[email]])
AnalyzeSingleEmail(email) ==
  /\ LET result == ClusterAnalysis[email]
         new_patterns == IF result.k = "dict"
                         THEN NewPatterns(cluster_analyzer.appended, Len(result.new_patterns))
                         ELSE <<>>
     IN  cluster_analyzer' =
           [cluster_analyzer EXCEPT
              !.cluster_history = IF result.k = "dict"
                                  THEN UpdatedClusterHistory(@, new_patterns) ELSE @,
              !.appended = @ + Len(new_patterns),
              !.result = [k |-> "call", email |-> email, result |-> result,
                          appended |-> Len(new_patterns)]]
  /\ UNCHANGED <<analyzer_vars, ml_analyzer, context_store, proactive_defense,
                 feedback_learner, scanner, threat_intel, helper_call>>

\* analyze_email_patterns(batch) for a batch whose clusters give count
\* patterns that are not known yet: lines 61 to 64
AnalyzeBatch(count) ==
  /\ cluster_analyzer.updates < MaxClusterUpdates
  /\ cluster_analyzer' =
       [cluster_analyzer EXCEPT
          !.cluster_history =
             UpdatedClusterHistory(@, NewPatterns(cluster_analyzer.appended, count)),
          !.appended = @ + count,
          !.updates = @ + 1]
  /\ UNCHANGED <<analyzer_vars, ml_analyzer, context_store, proactive_defense,
                 feedback_learner, scanner, threat_intel, helper_call>>

NextCluster ==
  \/ \E email \in RunMessages : AnalyzeSingleEmail(email)
  \/ \E count \in BatchPatterns : AnalyzeBatch(count)

SpecCluster == Init /\ [][NextCluster]_vars

\* the sizes of the indicator lists of the clusters' members
PatternSizes == {0, 5, 7, 8, 10}
IndicatorList(n) == [i \in 1..n |-> i]
\* a cluster of the fewest members DBSCAN forms a cluster of, all with the same
\* n indicators
SimilarMembers(n) ==
  [i \in 1..DBSCAN_MIN_SAMPLES |-> Member(IndicatorList(n), "x@evil.xyz", <<>>, <<>>)]
\* the clusters of a batch, in the order of their labels
BatchClusters ==
  UNION {[1..k -> {SimilarMembers(n) : n \in PatternSizes}] : k \in 1..MaxClusters}

\* analyze_email_patterns(batch) for a batch that DBSCAN groups into clusters:
\* lines 52 to 71
AnalyzeClusters(clusters) ==
  /\ cluster_analyzer.updates < MaxPatternBatches
  /\ LET new_patterns == IdentifyNewPatterns(cluster_analyzer.cluster_history, clusters)
     IN  cluster_analyzer' =
           [cluster_history |->
              UpdatedClusterHistory(cluster_analyzer.cluster_history, new_patterns),
            appended |-> cluster_analyzer.appended + Len(new_patterns),
            updates |-> cluster_analyzer.updates + 1,
            result |-> [k |-> "batch", clusters |-> clusters,
                        known |-> cluster_analyzer.cluster_history,
                        new_patterns |-> new_patterns]]
  /\ UNCHANGED <<analyzer_vars, ml_analyzer, context_store, proactive_defense,
                 feedback_learner, scanner, threat_intel, helper_call>>

NextPatterns == \E clusters \in BatchClusters : AnalyzeClusters(clusters)

SpecPatterns == Init /\ [][NextPatterns]_vars

(***************************************************************************)
(* ContextAwareAnalyzer and its storage directory: the organization        *)
(* context is saved by every change and loaded by the constructor.         *)
(***************************************************************************)
HRPattern ==
  [department |-> "hr", role |-> "hr", sender |-> "bewerbung@firma.de",
   typical_subjects |-> <<"Bewerbung">>, typical_times |-> <<"10:00">>]

StorePatterns == {FinancePattern, HRPattern}

\* context_data without the key communication_patterns, and with the key
\* and an empty list
ContextData ==
  {[communication_patterns |-> patterns, roles |-> roles] :
     patterns \in {Absent, List(<<>>)}, roles \in {Absent, List(<<"hr">>)}}

\* ContextAwareAnalyzer.update_organization_context(context_data).  The
\* model update of lines 95 and 96 calls a method the class does not have;
\* the AttributeError is logged after the context was saved.
UpdateOrganizationContext(context_data) ==
  /\ LET patterns == IF context_data.communication_patterns = Absent
                     THEN communication_patterns
                     ELSE context_data.communication_patterns.xs
         roles == IF context_data.roles = Absent THEN context_store.roles
                  ELSE context_data.roles
     IN  /\ communication_patterns' = patterns
         /\ context_store' = [context_store EXCEPT
                                !.context_file = SavedContext(patterns, roles),
                                !.roles = roles,
                                !.referenced = LoadRoleModels(context_data.roles)]
  /\ UNCHANGED <<training_data, model, role_models, history, now, threat_score,
                 threat_indicators, urls_found, pc, frame, outcome, analyses, levels>>
  /\ UNCHANGED <<ml_analyzer, services>>

\* ContextAwareAnalyzer(storage_dir) constructed anew over the same storage:
\* a role model is loaded or created for every role of the loaded context
Restart ==
  /\ communication_patterns' = LoadOrganizationContext(context_store.context_file)
  /\ role_models' = LoadRoleModels(LoadRoles(context_store.context_file))
  /\ context_store' = [context_store EXCEPT
                         !.roles = LoadRoles(context_store.context_file),
                         !.referenced = {}]
  /\ UNCHANGED <<training_data, model, history, now, threat_score, threat_indicators,
                 urls_found, pc, frame, outcome, analyses, levels>>
  /\ UNCHANGED <<ml_analyzer, services>>

NextContext ==
  \/ \E pattern_data \in StorePatterns : AddCommunicationPattern(pattern_data)
  \/ \E context_data \in ContextData : UpdateOrganizationContext(context_data)
  \/ Restart

SpecContext == Init /\ [][NextContext]_vars

(***************************************************************************)
(* MLAnalyzer on its own: train and analyze_email as                       *)
(* test_ml_analyzer_regression calls them.                                 *)
(***************************************************************************)
\* MLAnalyzer.analyze_email(Corpus[email])
MLAnalyze(email) ==
  /\ \E prediction \in Predictions(model) :
       ml_analyzer' =
         [ml_analyzer EXCEPT
            !.result = [k |-> "call", email |-> email, fitted |-> model.fitted,
                        result |-> MLAnalyzeEmail(model, MLFeatures[email], prediction)]]
  /\ UNCHANGED <<analyzer_vars, context_store, services>>

NextML ==
  \/ \E email \in TrainMessages, score \in TrainScores : Train(email, score)
  \/ \E email \in RunMessages : MLAnalyze(email)

SpecML == Init /\ [][NextML]_vars

(***************************************************************************)
(* FeedbackLearner: the feedback log and the retraining it triggers.       *)
(***************************************************************************)
min_feedback_samples == 50
retraining_threshold == 10

\* len(v) is defined for a str and a list; it raises TypeError for None
HasLen(v) == v.k \in {"str", "list"}
PyLen(v) == IF v.k = "str" THEN Len(v.s) ELSE Len(v.xs)

\* the messages add_feedback is called with
FeedbackMessages == {3, 4}
\* an analysis_result without keys: every get falls back to its default
AnalysisResults == {[score |-> Absent, level |-> Absent, indicators |-> Absent]}
UserFeedbacks ==
  {[is_correct |-> TRUE, correct_category |-> "safe", notes |-> ""],
   [is_correct |-> FALSE, correct_category |-> "phishing", notes |-> ""]}

\* feedback_entry of add_feedback; its body_length needs len() of the body
FeedbackEntry(email_data, analysis_result, user_feedback, now_) ==
  [timestamp |-> Time(now_),
   email_data |->
     [subject |-> Get(email_data.subject, Str("")),
      sender |-> Get(email_data.sender, Str("")),
      has_attachments |-> Truthy(Get(email_data.attachments, List(<<>>))),
      body_length |-> PyLen(Get(email_data.body, Str("")))],
   analysis |->
     [score |-> Get(analysis_result.score, Frac(0, 1)),
      level |-> Get(analysis_result.level, Str("LOW")),
      indicators |-> Get(analysis_result.indicators, List(<<>>))],
   user_feedback |-> user_feedback]

\* the retraining condition of add_feedback on the log's length
FeedbackRetrainDue(n) ==
  n >= min_feedback_samples /\ n % retraining_threshold = 0

\* entries of the log the user marked as wrongly analysed
Disagreements(feedback_data) ==
  Cardinality({i \in 1..Len(feedback_data) :
                 ~feedback_data[i].user_feedback.is_correct})

\* _retrain_model: the classifier is replaced and fit raises ValueError, which is
\* swallowed, unless the labels hold both classes
FeedbackRetrainModel(feedback_data) ==
  0 < Disagreements(feedback_data) /\ Disagreements(feedback_data) < Len(feedback_data)

\* FeedbackLearner.add_feedback(Corpus[email], analysis_result, user_feedback)
AddFeedback(email, analysis_result, user_feedback) ==
  /\ feedback_learner.calls < MaxFeedback
  /\ user_feedback.is_correct \/ Disagreements(feedback_learner.feedback_data) < MaxDisagree
  /\ IF ~HasLen(Get(Corpus[email].body, Str("")))
     THEN feedback_learner' =
            [feedback_learner EXCEPT !.calls = @ + 1, !.outcome = RaisedOutcome]
     ELSE LET entry == FeedbackEntry(Corpus[email], analysis_result, user_feedback, now)
              data == Append(feedback_learner.feedback_data, entry)
              due == FeedbackRetrainDue(Len(data))
          IN  feedback_learner' =
                [feedback_data |-> data,
                 feedback_file |-> data,
                 fitted |-> IF due THEN FeedbackRetrainModel(data)
                            ELSE feedback_learner.fitted,
                 calls |-> feedback_learner.calls + 1,
                 retrains |-> feedback_learner.retrains + (IF due THEN 1 ELSE 0),
                 outcome |-> [k |-> "returned"]]
  /\ UNCHANGED <<analyzer_vars, ml_analyzer, context_store, proactive_defense,
                 cluster_analyzer, scanner, threat_intel, helper_call>>

NextFeedback ==
  \E email \in FeedbackMessages, analysis_result \in AnalysisResults,
     user_feedback \in UserFeedbacks :
    AddFeedback(email, analysis_result, user_feedback)

SpecFeedback == Init /\ [][NextFeedback]_vars

(***************************************************************************)
(* EmailScanner: the configured mail client and get_emails.                *)
(***************************************************************************)
\* the client option of configuration.ini's EMAIL section; Absent: no option
ClientOptions ==
  {Absent, Str("outlook"), Str("Gmail"), Str("exchange"), Str("thunderbird")}

\* _initialize_client: the client for the configured type, or the error raised.
\* configparser raises NoSectionError for the EXCHANGE options that have no
\* fallback
InitializeClient(config) ==
  LET client_type == Lower(Get(config.client, Str("outlook")).s)
  IN  CASE client_type = "outlook" -> [k |-> "client", name |-> "Outlook"]
        [] client_type = "gmail" -> [k |-> "client", name |-> "Gmail"]
        [] client_type = "exchange" ->
             IF config.exchange_section
             THEN [k |-> "client", name |-> "Exchange"]
             ELSE [k |-> "raised", error |-> "NoSectionError"]
        [] OTHER -> [k |-> "raised", error |-> "ValueError"]

\* what client.get_emails(max_count) gives: a mailbox, or an exception
FetchRaises == [k |-> "raised"]
Mailboxes ==
  {<<>>} \cup {<<m>> : m \in ScanMessages} \cup (ScanMessages \X ScanMessages)
Fetches == {FetchRaises} \cup {List(emails) : emails \in Mailboxes}

\* what get_emails gives its caller, what it logged as an error, and whether
\* _client_context disconnected the client
ScanOutcome(emails, logged, disconnected) ==
  [k |-> "returned", emails |-> emails, logged |-> logged, disconnected |-> disconnected]

\* EmailScanner.get_emails(max_count) with a client whose connect() answers
\* connects and whose get_emails gives fetched
GetEmails(connects, fetched) ==
  /\ scanner.scans < MaxScans
  /\ LET client == InitializeClient(scanner.config)
         result ==
           CASE client.k = "raised" -> ScanOutcome(<<>>, "Fehler beim Abrufen", FALSE)
             [] ~connects -> ScanOutcome(<<>>, "Verbindungsfehler", FALSE)
             [] fetched = FetchRaises -> ScanOutcome(<<>>, "Fehler beim Abrufen", TRUE)
             [] OTHER -> ScanOutcome(fetched.xs, "", TRUE)
     IN  scanner' = [scanner EXCEPT !.scans = @ + 1, !.outcome = result]
  /\ UNCHANGED <<analyzer_vars, ml_analyzer, context_store, proactive_defense,
                 cluster_analyzer, feedback_learner, threat_intel, helper_call>>

\* EmailScanner(config_file): the scanner is constructed over a configuration.ini
\* with the given client option, with or without an EXCHANGE section
NewScanner(client, exchange_section) ==
  /\ scanner.scans < MaxScans
  /\ scanner' = [scanner EXCEPT
                   !.config = [client |-> client, exchange_section |-> exchange_section],
                   !.outcome = NoCall]
  /\ UNCHANGED <<analyzer_vars, ml_analyzer, context_store, proactive_defense,
                 cluster_analyzer, feedback_learner, threat_intel, helper_call>>

NextScanner ==
  \/ \E client \in ClientOptions, exchange_section \in BOOLEAN :
       NewScanner(client, exchange_section)
  \/ \E connects \in BOOLEAN, fetched \in Fetches : GetEmails(connects, fetched)

SpecScanner == Init /\ [][NextScanner]_vars

(***************************************************************************)
(* ThreatIntelligence.analyze_attachment: the file's hash and the lookup.  *)
(***************************************************************************)
\* the files at file_path: byte strings over two byte values, or no file
MissingFile == [k |-> "missing"]
RECURSIVE ByteStrings(_)
ByteStrings(n) ==
  IF n = 0 THEN {<<>>}
  ELSE ByteStrings(n - 1) \cup
       {Append(b, x) : b \in {c \in ByteStrings(n - 1) : Len(c) = n - 1}, x \in {0, 1}}
Files == {MissingFile} \cup {[k |-> "file", bytes |-> b] : b \in ByteStrings(MaxFileLen)}

RECURSIVE Sha256From(_, _)
\* hashlib.sha256(data).hexdigest(): a digest that depends on every byte and on
\* their order
Sha256From(h, data) ==
  IF data = <<>> THEN h
  ELSE Sha256From((h * 31 + Head(data) + 1) % 65536, Tail(data))
Sha256(data) == [k |-> "sha256", digest |-> Sha256From(7, data)]

\* f.read(size) calls on the open file until it is exhausted, with size -1 for a
\* read without a size: the sizes passed and the bytes returned
ReadAll(bytes) == [read_sizes |-> <<-1>>, data |-> bytes]

\* VIRUSTOTAL_API_KEY as os.getenv gives it, or as a caller sets it
ApiKeys == {None, Str(""), Str("dummy")}
\* the responses of the VirusTotal files endpoint
Responses ==
  {[status_code |-> 200, malicious |-> m] : m \in {0, 1}} \cup
  {[status_code |-> 404, malicious |-> 0]}

\* the dict analyze_attachment returns, with the reads of the file and the hash in
\* the requested URL (Absent: no request was sent)
AttachmentCall(file, read_sizes, lookup, result) ==
  [k |-> "call", file |-> file, read_sizes |-> read_sizes, lookup |-> lookup,
   result |-> result]

\* ThreatIntelligence.analyze_attachment(file_path)
AnalyzeAttachment(file, requests_available, response) ==
  /\ LET read == ReadAll(file.bytes)
         file_hash == Sha256(read.data)
     IN  threat_intel' =
           [threat_intel EXCEPT !.call =
              CASE ~Truthy(threat_intel.vt_api_key) ->
                     AttachmentCall(file, <<>>, Absent, [error |-> "Kein API-Schlüssel"])
                [] file = MissingFile ->
                     AttachmentCall(file, <<>>, Absent, [error |-> "FileNotFoundError"])
                [] ~requests_available ->
                     AttachmentCall(file, read.read_sizes, Absent,
                                    [error |-> "requests nicht verfügbar"])
                [] response.status_code = 200 ->
                     AttachmentCall(file, read.read_sizes, file_hash,
                                    [malicious |-> response.malicious])
                [] OTHER ->
                     AttachmentCall(file, read.read_sizes, file_hash,
                                    [error |-> "VirusTotal API Fehler"])]
  /\ UNCHANGED <<analyzer_vars, ml_analyzer, context_store, proactive_defense,
                 cluster_analyzer, feedback_learner, scanner, helper_call>>

\* threat_intel.vt_api_key = key
SetApiKey(key) ==
  /\ threat_intel' = [threat_intel EXCEPT !.vt_api_key = key]
  /\ UNCHANGED <<analyzer_vars, ml_analyzer, context_store, proactive_defense,
                 cluster_analyzer, feedback_learner, scanner, helper_call>>

NextIntel ==
  \/ \E key \in ApiKeys : SetApiKey(key)
  \/ \E file \in Files, requests_available \in BOOLEAN, response \in Responses :
       AnalyzeAttachment(file, requests_available, response)

SpecIntel == Init /\ [][NextIntel]_vars

(***************************************************************************)
(* Single methods of the analyzers, called on their own on a new object.   *)
(***************************************************************************)
\* the file names of the attachment lists _check_attachments is called with
AttachmentNames == {"invoice.exe", "Report.PDF", "setup.exe.zip", "notes.txt", "archive.zip"}
AttachmentLists == UNION {[1..n -> AttachmentNames] : n \in 0..MaxAttachments}

\* ThreatAnalyzer()._check_attachments(attachments)
CheckAttachmentsCall(attachments) ==
  /\ helper_call' = [k |-> "check_attachments", attachments |-> attachments,
                     result |-> CheckAttachments(Strs(attachments))]
  /\ threat_indicators' = CheckAttachments(Strs(attachments)).inds
  /\ UNCHANGED <<training_data, model, communication_patterns, role_models, history, now,
                 threat_score, urls_found, pc, frame, outcome, analyses, levels>>
  /\ UNCHANGED <<ml_analyzer, context_store, proactive_defense, cluster_analyzer,
                 feedback_learner, scanner, threat_intel>>

NextAttachments == \E attachments \in AttachmentLists : CheckAttachmentsCall(attachments)

SpecAttachments == Init /\ [][NextAttachments]_vars

\* the messages _determine_threat_type is called with
TypeAttachments ==
  {Absent, List(<<>>), Strs(<<"invoice.exe">>), Strs(<<"notes.json">>),
   Strs(<<"INVOICE.EXE">>), Strs(<<"Report.PDF", "archive.zip">>)}
TypeBodies == {Str(""), Str("Hallo"), Str("Ihre Bank"), Str("Bitte ANMELDEN"), None}
TypeSubjects == {Absent, Str(""), Str("Protokoll"), Str("Lottery"), Str("Gewinnspiel")}
TypeMessages ==
  {Message(subject, Str("a@b.de"), body, attachments) :
     subject \in TypeSubjects, body \in TypeBodies, attachments \in TypeAttachments}

\* ThreatAnalyzer()._determine_threat_type(email_data)
DetermineThreatTypeCall(email_data) ==
  /\ helper_call' = [k |-> "determine_threat_type", email_data |-> email_data,
                     result |-> DetermineThreatType(email_data)]
  /\ UNCHANGED <<analyzer_vars, ml_analyzer, context_store, proactive_defense,
                 cluster_analyzer, feedback_learner, scanner, threat_intel>>

NextThreatType == \E email_data \in TypeMessages : DetermineThreatTypeCall(email_data)

SpecThreatType == Init /\ [][NextThreatType]_vars

\* the members of the clusters _find_common_indicators is called with: indicator 1
\* twice, no indicator, indicator 1 once, and an internal sender without an "@"
ClusterMembers ==
  {Member(<<1, 1>>, "a@evil.xyz", <<"a.exe">>, <<>>),
   Member(<<>>, "b@firma.de", <<"b.exe">>, <<"http://fake-bank.com">>),
   Member(<<1>>, "c@firma.de", <<>>, <<>>),
   Member(<<2>>, "intern", <<"a.exe">>, <<"http://fake-bank.com">>)}
MemberLists ==
  UNION {[1..n -> ClusterMembers] : n \in DBSCAN_MIN_SAMPLES..MaxMembers}

\* ThreatClusterAnalyzer()._find_common_indicators(emails)
FindCommonIndicatorsCall(emails) ==
  /\ helper_call' = [k |-> "find_common_indicators", emails |-> emails,
                     result |-> FindCommonIndicators(emails)]
  /\ UNCHANGED <<analyzer_vars, ml_analyzer, context_store, proactive_defense,
                 cluster_analyzer, feedback_learner, scanner, threat_intel>>

NextCommon == \E emails \in MemberLists : FindCommonIndicatorsCall(emails)

SpecCommon == Init /\ [][NextCommon]_vars

\* the user contexts _analyze_department_specific is called with: no department,
\* or a department with a clearance level below, at and above the cap
DepartmentContexts ==
  {UserContext(department, department, clearance_level, {}) :
     department \in {"", "finance", "hr"}, clearance_level \in {1, 4, 5}}

\* ContextAwareAnalyzer._analyze_department_specific(Corpus[email], user_context)
AnalyzeDepartmentSpecificCall(email, user_context) ==
  /\ helper_call' = [k |-> "analyze_department_specific", email |-> email,
                     user_context |-> user_context, patterns |-> communication_patterns,
                     result |-> AnalyzeDepartmentSpecific(communication_patterns,
                                                          Corpus[email], user_context)]
  /\ UNCHANGED <<analyzer_vars, ml_analyzer, context_store, proactive_defense,
                 cluster_analyzer, feedback_learner, scanner, threat_intel>>

NextDepartment ==
  \/ \E pattern_data \in StorePatterns : AddCommunicationPattern(pattern_data)
  \/ \E email \in RunMessages, user_context \in DepartmentContexts :
       AnalyzeDepartmentSpecificCall(email, user_context)

SpecDepartment == Init /\ [][NextDepartment]_vars

(***************************************************************************)
(* Properties                                                              *)
(***************************************************************************)
\* thread t's analyze_email call is over
Ended(t) == pc[t] \in {"done", "raised"}

\* the indicators the four rule checks append for a message that passes
\* them all, in the order of the checks
RuleIndicators(email, order) ==
  SenderCheck[email].inds \o SubjectCheck[email].inds
    \o BodyCheck[email][order].inds \o AttachmentCheck[email].inds

\* C1: the score of every verdict analyze_email returns lies between 0.0 and
\* 10.0, whatever was trained and analyzed before
C1_ScoreInRange ==
  \A t \in Threads :
    outcome[t].k = "verdict" => 0 <= outcome[t].score /\ outcome[t].score <= 1000

\* C2: get_threat_level gives HIGH from 7.0 on, MEDIUM from 4.0 up to but
\* not including 7.0 and LOW below 4.0, with use_icon the icon of that
\* level, and a greater score never gets a lower level
C2_LevelByThresholds ==
  LET Expected(score) == IF FracGeq(score, 7000) THEN "HIGH"
                         ELSE IF FracLess(score, 4000) THEN "LOW" ELSE "MEDIUM"
      Name(call) == IF call.use_icon
                    THEN CHOOSE l \in DOMAIN THREAT_LEVELS : THREAT_LEVELS[l] = call.level
                    ELSE call.level
      Rank == [LOW |-> 1, MEDIUM |-> 2, HIGH |-> 3]
  IN  /\ \A i \in 1..2 :
           levels[i].k = "call" =>
             levels[i].level = IF levels[i].use_icon
                               THEN THREAT_LEVELS[Expected(levels[i].score)]
                               ELSE Expected(levels[i].score)
      /\ (levels[1].k = "call" /\ levels[2].k = "call"
            /\ FracLeq(levels[1].score, levels[2].score))
           => Rank[Name(levels[1])] <= Rank[Name(levels[2])]

\* a score just below 7.0 was mapped to MEDIUM and then 7.0 itself to the
\* icon of HIGH
C2_Witness ==
  /\ levels[1].k = "call" /\ levels[2].k = "call"
  /\ levels[1].score = Frac(6999, 1) /\ levels[1].level = "MEDIUM"
  /\ levels[2].score = Frac(7000, 1) /\ levels[2].use_icon
  /\ levels[2].level = THREAT_LEVELS.HIGH

\* C3: the level of a verdict is the icon get_threat_level gives for the
\* score the verdict carries
C3_LevelOfReturnedScore ==
  \A t \in Threads :
    outcome[t].k = "verdict" =>
      outcome[t].level = GetThreatLevel(Frac(10 * outcome[t].score, 1), TRUE)

\* C4: the fused score is min(10, 10 * (0.4 R + w_ml M + w_ctx C + 0.1 K)
\* / (0.4 + w_ml + w_ctx + 0.1)), the divisor summing the weights of the
\* scored signals only
C4_FusionFormula ==
  \A t \in Threads :
    outcome[t].k = "verdict" =>
      LET f == frame[t]
          w_ml == IF f.ml_confidence > 700 THEN 2 ELSE 1
          w_ctx == IF Contexts[f.user_context].k = "dict" THEN 2 ELSE 0
          fused == Frac(10 * (f.sender_score + f.subject_score + f.body_score
                                + f.attachment_score + w_ml * f.ml_score
                                + w_ctx * f.context_score + f.cluster_score),
                        4 + w_ml + w_ctx + 1)
      IN  outcome[t].score =
            Round2(IF FracGeq(fused, 10000) THEN Frac(10000, 1) ELSE fused)

\* C5: a failing sub-scorer never makes analyze_email raise: every call
\* ends with a verdict
C5_NoExceptionReachesCaller ==
  \A t \in Threads : Ended(t) => outcome[t].k = "verdict"

\* C6: a message with fields that are missing or None gets a verdict
C6_MissingFieldsGetVerdict ==
  \A t \in Threads :
    (/\ Ended(t)
     /\ \E field \in {"subject", "sender", "body", "attachments"} :
          Corpus[frame[t].email][field].k \in {"absent", "none"})
      => outcome[t].k = "verdict"

\* C7: under every interleaving of two calls for different messages, a
\* verdict's score, rule indicators and URLs are those of the call running
\* alone on its message
C7_CallsIsolated ==
  \A t \in Threads :
    (outcome[t].k = "verdict" /\ frame[1].email # frame[2].email) =>
      LET f == frame[t]
          alone == Run([pc |-> "reset",
                        frame |-> NewFrame(f.email, f.user_context, f.prediction, f.order),
                        threat_score |-> Frac(0, 1), threat_indicators |-> <<>>,
                        urls_found |-> {}, history |-> <<>>, outcome |-> NoOutcome],
                       Env)
      IN  /\ alone.outcome.k = "verdict"
          /\ outcome[t].score = alone.outcome.score
          /\ outcome[t].analyzed_urls = alone.outcome.analyzed_urls
          /\ outcome[t].indicators =
               RuleIndicators(f.email, f.order) \o outcome[t].trend_analysis.recommendations

\* C8: the suspicious message of test_high_threat_email is scored 7.0 or
\* more and labelled HIGH in every analyzer state
C8_HighThreatMessageIsHigh ==
  \A t \in Threads :
    (Ended(t) /\ Corpus[frame[t].email] = HighThreatMessage)
      => /\ outcome[t].k = "verdict"
         /\ outcome[t].score >= 700
         /\ outcome[t].level = THREAT_LEVELS.HIGH

\* C9: for the message with sender "", subject "", body "" and no
\* attachments the call returns, the sender check gives the
\* suspicious-domain weight and the one indicator "Fehlender Absender", and
\* the other three checks give 0 and no indicator
C9_EmptyMessageRuleScore ==
  \A t \in Threads :
    (Ended(t) /\ Corpus[frame[t].email] = EmptyMessage)
      => /\ outcome[t].k = "verdict"
         /\ frame[t].sender_score = SCORING_WEIGHTS.sender.suspicious_domain
         /\ frame[t].subject_score = 0
         /\ frame[t].body_score = 0
         /\ frame[t].attachment_score = 0
         /\ outcome[t].indicators =
              <<"Fehlender Absender">> \o outcome[t].trend_analysis.recommendations

\* the empty message has been analyzed
C9_Witness ==
  /\ pc[1] = "done"
  /\ Corpus[frame[1].email] = EmptyMessage
  /\ outcome[1].k = "verdict"
  /\ Len(outcome[1].indicators) = 2

\* C10: without a user context the context scorer is not run, its term has
\* weight 0 in the sum and in the divisor, no role indicator is added and
\* context_analysis is null; with a user context context_analysis is the
\* scorer's result and the weight is 0.2
C10_ContextOnlyWhenSupplied ==
  \A t \in Threads :
    outcome[t].k = "verdict" =>
      LET f == frame[t]
          supplied == Contexts[f.user_context].k = "dict"
          w_ml == IF f.ml_confidence > 700 THEN 2 ELSE 1
          Fused(w_ctx) ==
            Normalise(Frac(f.sender_score + f.subject_score + f.body_score
                             + f.attachment_score + w_ml * f.ml_score
                             + w_ctx * f.context_score + f.cluster_score,
                           4 + w_ml + w_ctx + 1 + 1))
      IN  IF supplied
          THEN /\ f.context_result # None
               /\ outcome[t].context_analysis = f.context_result
               /\ f.context_score = f.context_result.context_score
               /\ outcome[t].score = Round2(Fused(2))
          ELSE /\ outcome[t].context_analysis = None
               /\ f.context_result = None
               /\ outcome[t].score = Round2(Fused(0))
               /\ outcome[t].indicators =
                    RuleIndicators(f.email, f.order)
                      \o outcome[t].trend_analysis.recommendations

\* a call without user context has returned a verdict with a score above 0
C10_Witness ==
  /\ pc[1] = "done"
  /\ outcome[1].k = "verdict"
  /\ Contexts[frame[1].user_context] = NoContext
  /\ outcome[1].context_analysis = None
  /\ outcome[1].score > 0

\* C11: the trend history persists and only grows: an analyze_trends([])
\* call reports in window_analysis.short.total_threats at least the number
\* of records earlier calls ingested with a stamp inside the last 24 hours,
\* and it leaves the history as it was
C11_HistoryPersists ==
  /\ [](LET call == proactive_defense.result
        IN  (call.k = "call" /\ call.emails = <<>>) =>
              call.result.window_analysis.short.total_threats >=
                Cardinality({i \in 1..Len(proactive_defense.ingested) :
                               proactive_defense.ingested[i] >= call.now - 24}))
  /\ [][(proactive_defense'.result.k = "call" /\ proactive_defense'.result.emails = <<>>)
          => history' = history]_vars

\* after the two sample threats and the one stamped 24 hours ago were
\* ingested, analyze_trends([]) reported the three of them
C11_Witness ==
  /\ proactive_defense.result.k = "call"
  /\ proactive_defense.result.emails = <<>>
  /\ Len(proactive_defense.ingested) = 3
  /\ proactive_defense.result.result.window_analysis.short.total_threats = 3

\* C12: analyze_email_patterns on a batch of one message returns a result
\* whose new_patterns is the empty list and appends nothing to the cluster
\* history, whatever the message holds
C12_SingleMessageNoPatterns ==
  LET call == cluster_analyzer.result
  IN  call.k = "call" =>
        /\ call.result.k = "dict"
        /\ call.result.new_patterns = <<>>
        /\ call.appended = 0

\* C13: the cluster history holds at most 1000 patterns, and they are the
\* ones appended last, in the order they were appended
C13_HistoryKeepsNewest ==
  LET h == cluster_analyzer.cluster_history
      n == cluster_analyzer.appended
  IN  /\ Len(h) = IF n > 1000 THEN 1000 ELSE n
      /\ \A i \in 1..Len(h) : h[i] = n - Len(h) + i

\* more than 1000 patterns were appended and the history holds 1000
C13_Witness ==
  /\ cluster_analyzer.appended > 1000
  /\ Len(cluster_analyzer.cluster_history) = 1000
  /\ cluster_analyzer.cluster_history[1] = cluster_analyzer.appended - 999

\* C14: the organization context a newly constructed ContextAwareAnalyzer
\* loads from the storage holds every communication pattern that was added
\* before, in the order in which they were added
C14_PatternsSurviveRestart ==
  LET added == context_store.added
      loaded == LoadOrganizationContext(context_store.context_file)
  IN  \E at \in [1..Len(added) -> 1..Len(loaded)] :
        /\ \A i \in 1..Len(added) : loaded[at[i]] = added[i]
        /\ \A i, j \in 1..Len(added) : i < j => at[i] < at[j]

\* the indicators of a verdict that come from the rule checks: the ones
\* before those of the context scorer, the cluster detector and the trend
\* engine
RuleSet(v) ==
  LET others == (IF v.context_analysis = None THEN 0
                 ELSE Len(v.context_analysis.role_specific_threats))
                  + (IF HasNewPatterns(v.cluster_analysis) THEN 1 ELSE 0)
                  + Len(v.trend_analysis.recommendations)
  IN  {v.indicators[i] : i \in 1..(Len(v.indicators) - others)}

\* the four rule sub-scores of a call
RuleScores(f) == <<f.sender_score, f.subject_score, f.body_score, f.attachment_score>>

\* C15: the rule checks are idempotent: the four sub-scores and the set of
\* rule indicators of a call are those of its message alone, whatever was
\* analyzed before, and two calls in a row for the same message agree on
\* them and on whether the call raises
C15_RuleChecksIdempotent ==
  /\ [](\A t \in Threads :
         outcome[t].k = "verdict" =>
           /\ RuleScores(frame[t]) =
                <<SenderCheck[frame[t].email].score, SubjectCheck[frame[t].email].score,
                  BodyCheck[frame[t].email][frame[t].order].score,
                  AttachmentCheck[frame[t].email].score>>
           /\ RuleSet(outcome[t]) =
                {RuleIndicators(frame[t].email, frame[t].order)[i] :
                   i \in 1..Len(RuleIndicators(frame[t].email, frame[t].order))})
  /\ [][(/\ analyses' = analyses + 1
         /\ outcome[1] # NoOutcome
         /\ frame'[1].email = frame[1].email)
        => (/\ outcome'[1].k = outcome[1].k
            /\ RuleScores(frame'[1]) = RuleScores(frame[1])
            /\ (outcome[1].k = "verdict" => RuleSet(outcome'[1]) = RuleSet(outcome[1])))]_vars

\* the message on which the sender, subject and attachment checks fire has
\* been analyzed twice in a row
C15_Witness ==
  /\ analyses = 2
  /\ Corpus[frame[1].email] = LoadedMessage
  /\ outcome[1].k = "verdict"
  /\ Len(history) = 2
  /\ history[1].score = history[2].score
  /\ history[2].score > 0

\* C16: every train call appends one sample, the retrain runs on exactly
\* the calls that bring the number of samples to a multiple of 10, it fits
\* the model on all samples accumulated so far, and after 10 calls on a
\* fresh analyzer a model is fitted
C16_RetrainEveryTenth ==
  /\ training_data.n = ml_analyzer.train_calls
  /\ ml_analyzer.retrains = ml_analyzer.train_calls \div 10
  /\ ml_analyzer.train_calls >= 10 => model.fitted
  /\ model.fitted => model.samples = 10 * ml_analyzer.retrains

\* C17: MLAnalyzer.analyze_email returns ml_score 0.0 and confidence 0.0
\* when no model was trained and when feature extraction raises, and it
\* reports confidence 1.0 only for a prediction of a fitted model
C17_ColdStartDefault ==
  LET call == ml_analyzer.result
  IN  call.k = "call" =>
        /\ (~call.fitted \/ MLFeatures[call.email].raised)
              => call.result = [ml_score |-> 0, confidence |-> 0]
        /\ call.result.confidence \in {0, 1000}
        /\ call.result.confidence = 1000
              => (call.fitted /\ ~MLFeatures[call.email].raised)

\* a fitted model was asked about the message whose body is None
C17_Witness ==
  /\ ml_analyzer.result.k = "call"
  /\ ml_analyzer.result.fitted
  /\ Corpus[ml_analyzer.result.email] = NullBodyMessage
  /\ ml_analyzer.result.result.confidence = 0

\* C18: the feedback log is append-only: every add_feedback call appends exactly
\* one entry behind the earlier ones and saves the log, and the feedback model is
\* retrained by exactly the calls that leave the log at a length of at least 50
\* that is a multiple of 10
C18_FeedbackLogAppendOnly ==
  /\ [](/\ Len(feedback_learner.feedback_data) = feedback_learner.calls
        /\ feedback_learner.feedback_file = feedback_learner.feedback_data
        /\ feedback_learner.retrains =
             Cardinality({n \in 1..feedback_learner.calls : n >= 50 /\ n % 10 = 0}))
  /\ [][feedback_learner'.calls = feedback_learner.calls + 1 =>
          /\ Len(feedback_learner'.feedback_data) =
               Len(feedback_learner.feedback_data) + 1
          /\ SubSeq(feedback_learner'.feedback_data, 1,
                    Len(feedback_learner.feedback_data)) =
               feedback_learner.feedback_data]_vars

\* C19: with a mail-client type that is not supported, get_emails raises an error
\* to its caller instead of returning a result
C19_UnsupportedClientRaises ==
  (/\ scanner.outcome # NoCall
   /\ InitializeClient(scanner.config) = [k |-> "raised", error |-> "ValueError"])
    => scanner.outcome.k = "raised"

\* C20: analyze_attachment hashes the file as a stream: no read of the file is
\* without a size, a file larger than one chunk takes more than one read, and the
\* hash in the lookup is the SHA-256 of the whole file content
C20_AttachmentHashIsStreamed ==
  (threat_intel.call.k = "call" /\ threat_intel.call.lookup.k = "sha256") =>
    LET call == threat_intel.call
    IN  /\ \A i \in 1..Len(call.read_sizes) : call.read_sizes[i] # -1
        /\ Len(call.file.bytes) > ChunkSize => Len(call.read_sizes) > 1
        /\ call.lookup = Sha256(call.file.bytes)

\* the first tier, in the order high, medium, low, whose extension table holds a
\* suffix of the lower-cased file name
FirstTier(name) ==
  LET Has(tier) == \E i \in 1..Len(SUSPICIOUS_EXTENSIONS[tier]) :
                     EndsWith(Lower(name), SUSPICIOUS_EXTENSIONS[tier][i])
  IN  IF Has("high_risk") THEN "high_risk"
      ELSE IF Has("medium_risk") THEN "medium_risk"
      ELSE IF Has("low_risk") THEN "low_risk"
      ELSE "none"

\* the weight of the first tier of a file name
FirstTierWeight(name) ==
  CASE FirstTier(name) = "high_risk" -> SCORING_WEIGHTS.attachments.high_risk_extension
    [] FirstTier(name) = "medium_risk" -> SCORING_WEIGHTS.attachments.medium_risk_extension
    [] FirstTier(name) = "low_risk" -> SCORING_WEIGHTS.attachments.low_risk_extension
    [] OTHER -> 0

RECURSIVE FirstTierWeights(_)
FirstTierWeights(names) ==
  IF names = <<>> THEN 0 ELSE FirstTierWeight(Head(names)) + FirstTierWeights(Tail(names))

HasTier(name) == FirstTier(name) # "none"

\* C21: every attachment adds the weight and one indicator of its first matching
\* tier only, the indicator naming the file; more than one attachment adds the
\* multiple-attachments weight once; "invoice.exe" alone gives the high-risk
\* weight and one indicator that mentions it
C21_FirstTierOnly ==
  helper_call.k = "check_attachments" =>
    LET names == helper_call.attachments
        result == helper_call.result
        several == IF Len(names) > 1 THEN 1 ELSE 0
        tiered == SelectSeq(names, HasTier)
    IN  /\ ~result.raised
        /\ result.score =
             several * SCORING_WEIGHTS.attachments.multiple_attachments
               + FirstTierWeights(names)
        /\ Len(result.inds) = several + Len(tiered)
        /\ \A j \in 1..Len(tiered) : Contains(result.inds[several + j], tiered[j])
        /\ threat_indicators = result.inds
        /\ names = <<"invoice.exe">> =>
             /\ result.score = 3000
             /\ Len(result.inds) = 1
             /\ Contains(result.inds[1], "invoice.exe")

\* a list of a double-extension archive and a document has been checked
C21_Witness ==
  /\ helper_call.k = "check_attachments"
  /\ helper_call.attachments = <<"setup.exe.zip", "Report.PDF">>
  /\ helper_call.result.score = 3500
  /\ Len(helper_call.result.inds) = 3

\* some attachment's name ends with an extension of the high-risk set
HasHighRiskExtension(attachments) ==
  \E i \in 1..Len(attachments.xs), j \in 1..Len(SUSPICIOUS_EXTENSIONS.high_risk) :
    EndsWith(attachments.xs[i].s, SUSPICIOUS_EXTENSIONS.high_risk[j])

\* the type the four rules give in their fixed order
FirstRuleType(attachments, body, subject) ==
  IF HasHighRiskExtension(attachments) THEN "malware"
  ELSE IF \E w \in {"bank", "konto", "password", "anmelden"} : Contains(Lower(body), w)
  THEN "phishing"
  ELSE IF \E w \in {"gewinn", "prize", "lottery"} : Contains(Lower(subject), w) THEN "scam"
  ELSE "suspicious"

\* C22: the threat type of a message is "malware" exactly when an attachment has a
\* high-risk extension, else "phishing" for a banking/login word in the body, else
\* "scam" for a prize word in the subject, else "suspicious"
C22_ThreatTypeByFirstRule ==
  (/\ helper_call.k = "determine_threat_type"
   /\ helper_call.email_data.body.k = "str"
   /\ Get(helper_call.email_data.subject, Str("")).k = "str")
    => /\ ~helper_call.result.raised
       /\ helper_call.result.type =
            FirstRuleType(Get(helper_call.email_data.attachments, List(<<>>)),
                          helper_call.email_data.body.s,
                          Get(helper_call.email_data.subject, Str("")).s)

\* C23: a cluster is a new pattern only if the Jaccard similarity of its indicator
\* set and the indicator set of every recorded pattern is below 70%; at 70% or more
\* it is a recurrence, which is neither reported nor appended
C23_NewOnlyBelowSeventyPercent ==
  cluster_analyzer.result.k = "batch" =>
    LET result == cluster_analyzer.result
        Indicators(c) == FindCommonIndicators(result.clusters[c]).common_indicators
        Below(c) ==
          \A i \in 1..Len(result.known) :
            LET known == result.known[i].characteristics.common_indicators
            IN  10 * Cardinality(known \cap Indicators(c))
                  < 7 * Cardinality(known \cup Indicators(c))
        Reported(c) ==
          \E i \in 1..Len(result.new_patterns) : result.new_patterns[i].cluster_id = c - 1
    IN  /\ \A c \in 1..Len(result.clusters) :
             Indicators(c) # {} => (Reported(c) <=> Below(c))
        /\ cluster_analyzer.cluster_history = result.known \o result.new_patterns

\* the indicators, domains, attachment types and URLs of one member
IndicatorsOf(email) == {email.indicators[i] : i \in 1..Len(email.indicators)}
DomainsOf(email) ==
  IF Contains(email.sender, "@") THEN {SplitSecond(email.sender, "@")} ELSE {}
AttachmentTypesOf(email) == {Splitext(email.attachments[i]) : i \in 1..Len(email.attachments)}
UrlsOf(email) == {email.analyzed_urls[i] : i \in 1..Len(email.analyzed_urls)}

\* C24: an indicator is a common indicator of a cluster exactly when at least 50%
\* of the members list it, and a domain, an attachment type or a URL is
\* characteristic exactly when at least 30% of the members have it
C24_SharesOfMembers ==
  helper_call.k = "find_common_indicators" =>
    LET emails == helper_call.emails
        result == helper_call.result
        n == Len(emails)
        Share(Values(_), percent) ==
          {x \in UNION {Values(emails[e]) : e \in 1..n} :
             100 * Cardinality({e \in 1..n : x \in Values(emails[e])}) >= percent * n}
    IN  /\ result.common_indicators = Share(IndicatorsOf, 50)
        /\ result.common_domains = Share(DomainsOf, 30)
        /\ result.common_attachment_types = Share(AttachmentTypesOf, 30)
        /\ result.common_url_patterns = Share(UrlsOf, 30)

\* C25: the department sub-score is 0.3 for a sender that matches a communication
\* pattern of the user's department, plus 0.3 for a subject that contains a typical
\* subject of the department, plus min(clearance_level / 10, 0.4), the last term
\* for every user context that names a department
C25_DepartmentScoreTerms ==
  (/\ helper_call.k = "analyze_department_specific"
   /\ helper_call.user_context.department # ""
   /\ ~helper_call.result.raised)
    => LET email_data == Corpus[helper_call.email]
           department == helper_call.user_context.department
           known == {i \in 1..Len(helper_call.patterns) :
                       helper_call.patterns[i].department = department}
           sender_term ==
             IF \E i \in known :
                  email_data.sender = Str(helper_call.patterns[i].sender)
             THEN 300 ELSE 0
           subject_term ==
             IF \E i \in known :
                  \E j \in 1..Len(helper_call.patterns[i].typical_subjects) :
                    /\ email_data.subject.k = "str"
                    /\ Contains(Lower(email_data.subject.s),
                                Lower(helper_call.patterns[i].typical_subjects[j]))
             THEN 300 ELSE 0
           clearance == helper_call.user_context.clearance_level * 100
       IN  helper_call.result.score =
             sender_term + subject_term + (IF clearance < 400 THEN clearance ELSE 400)

\* C26: after update_organization_context with a role among its roles, or
\* add_communication_pattern with a role, role_models holds a model for that role
\* in the running process
C26_RoleModelOnFirstReference == context_store.referenced \subseteq role_models

\* C27: every record analyze_email appends to the trend history has a
\* severity score within 0..10, and so has the avg_severity of every window
\* of the trend analysis a verdict carries.  Scores of records are in
\* thousandths, avg_severity in hundredths.
C27_RecordSeverityWithinScale ==
  /\ \A i \in 1..Len(history) : history[i].score >= 0 /\ history[i].score <= 10000
  /\ \A t \in Threads :
       outcome[t].k = "verdict" =>
         \A w \in {"short", "medium", "long"} :
           /\ outcome[t].trend_analysis.window_analysis[w].avg_severity >= 0
           /\ outcome[t].trend_analysis.window_analysis[w].avg_severity <= 1000

\* the recommendation analyze_trends gives for the dominant type of a window
MonitoringRecommendation(short) ==
  "Verstärkte Überwachung für " \o Dominant(short.type_distribution) \o "-Mails empfohlen"

\* C28: every verdict analyze_email returns has a non-empty indicator list:
\* the 24-hour window of its trend analysis holds at least the record of the
\* call, and the recommendation for the dominant type of that window is in
\* the indicators exactly once.
C28_VerdictHasMonitoringIndicator ==
  \A t \in Threads :
    outcome[t].k = "verdict" =>
      LET short == outcome[t].trend_analysis.window_analysis.short
          indicators == outcome[t].indicators
      IN  /\ indicators # <<>>
          /\ short.total_threats >= 1
          /\ short.type_distribution # <<>>
          /\ Cardinality({i \in 1..Len(indicators) :
                            indicators[i] = MonitoringRecommendation(short)}) = 1

\* the verdict for the ordinary message, which no rule, ML, context or
\* cluster signal fires on, holds the recommendation and nothing else
C28_Witness ==
  /\ outcome[1].k = "verdict"
  /\ Corpus[frame[1].email] = BenignMessage
  /\ outcome[1].score = 0
  /\ outcome[1].indicators =
       <<MonitoringRecommendation(outcome[1].trend_analysis.window_analysis.short)>>

\* the outcome of the call with frame f on an analyzer that has analysed
\* nothing before, at the start hour, with the model and the communication
\* patterns of the present state
FirstCallOutcome(f) ==
  Run([Entered(1, f.email, f.user_context, f.prediction, f.order)
         EXCEPT !.history = <<>>, !.threat_score = Frac(0, 1),
                !.threat_indicators = <<>>, !.urls_found = {}],
      [Env EXCEPT !.now = StartHour]).outcome

\* C29: the score and the level of a verdict do not depend on what was
\* analysed before: whatever the trend history and the hour, analyze_email
\* returns the score and the level that an analyzer with the same model and
\* the same communication patterns returns as its first verdict for the same
\* message and user context, given the same answer of the regressor.
C29_VerdictIndependentOfHistory ==
  [][(analyses' = analyses + 1 /\ outcome'[1].k = "verdict")
       => /\ FirstCallOutcome(frame'[1]).k = "verdict"
          /\ outcome'[1].score = FirstCallOutcome(frame'[1]).score
          /\ outcome'[1].level = FirstCallOutcome(frame'[1]).level]_vars

\* a second verdict, given after a message of another threat type was
\* analysed and a day has passed: its trend report differs from the one of
\* a first call
C29_Witness ==
  /\ analyses = 2
  /\ outcome[1].k = "verdict"
  /\ outcome[1].score > 0
  /\ Len(history) = 2
  /\ history[1].type # history[2].type
  /\ history[1].timestamp < history[2].timestamp
  /\ outcome[1].trend_analysis # FirstCallOutcome(frame[1]).trend_analysis

\* the familiarity of the sender of a message to a user context: 2 for one
\* of the common contacts, 1 for an address of the domain of a common
\* contact, 0 for any other
Familiarity(email_data, user_context) ==
  LET sender == email_data.sender.s
      domain == IF Contains(sender, "@") THEN SplitSecond(sender, "@") ELSE ""
  IN  IF sender \in user_context.common_contacts THEN 2
      ELSE IF /\ domain # ""
              /\ \E c \in user_context.common_contacts :
                   Contains(c, "@") /\ SplitSecond(c, "@") = domain
      THEN 1
      ELSE 0

\* user contexts with common contacts that differ in nothing but these
SameButContacts(c1, c2) ==
  /\ c1.k = "dict" /\ c2.k = "dict"
  /\ c1.common_contacts # {} /\ c2.common_contacts # {}
  /\ c1.department = c2.department
  /\ c1.role = c2.role
  /\ c1.clearance_level = c2.clearance_level

\* the outcome of the call with frame f, made in the present state under
\* the user context Contexts[user_context]
OutcomeUnder(f, user_context) ==
  Run(Entered(1, f.email, user_context, f.prediction, f.order), Env).outcome

====
